---- MODULE Spec2Model ----
(***************************************************************************)
(* Detection-to-recommendation pipeline of the crop monitoring system:     *)
(* the rule engine (ai_agent/rule_engine.py), the recommendation service   *)
(* (ai_agent/agent_service.py, ai_agent/signals.py), the isolation forest  *)
(* scorer (ml_module/anomaly_detector.py) and the detection endpoints      *)
(* (ml_module/views.py).                                                   *)
(*                                                                         *)
(* Numbers: confidences are integers in hundredths (0.85 is 85), sensor    *)
(* values are integers.  Python's None is the sentinel NoneVal.            *)
(***************************************************************************)
EXTENDS Integers, Sequences, FiniteSets, TLC

VARIABLES
    ctx,          \* rule engine: the RuleContext under evaluation
    ruleResult,   \* rule engine: what RuleEngine.evaluate returned
    ruleTrace,    \* rule engine: per registry rule, in call order, <<name, outcome kind>>
    ruleStatus,   \* rule engine: "idle" | "returned"
    readings,     \* store: SensorReading rows of the plot, oldest first
    anomalies,    \* store: AnomalyEvent rows, index = id
    recs,         \* store: AgentRecommendation rows
    nextRecId,    \* store: next id the AgentRecommendation table hands out
    held,         \* the AnomalyEvent instance the last creator still holds: its anomaly and
                  \* its 'recommendation' cache
    sig,          \* the post_save handler's create_recommendation_for_anomaly call in flight
    batch,        \* the batch_process_unprocessed_anomalies pass in flight
    lastCall,     \* the create_recommendation_for_anomaly call that returned in this step
    batchStats,   \* what the batch pass that finished in this step returned
    detectors,    \* scorer: the IsolationForestDetector objects, 1 constructed, 2 loaded
    files,        \* scorer: path -> pickled model_data, NoFile where nothing was written
    clock,        \* scorer: what datetime.now() answers next
    everTrained,  \* scorer: per detector, whether a train succeeded on it or it was loaded
    savedAs,      \* scorer: path -> the detector as it was when save_model wrote the path
    mlResult,     \* scorer: the call made in this step and what it returned or raised
    lbl,          \* labels: the anomaly whose label is being described
    lblOut,       \* labels: what the orchestrator and the explanation made of the label
    ctxs,         \* rule engine: the contexts handed to evaluate_multiple_anomalies
    multiResult,  \* rule engine: what evaluate_multiple_anomalies returned or raised
    sreadings,    \* detection: SensorReading rows of one plot and sensor type, oldest first
    events,       \* detection: AnomalyEvent rows the detect endpoints created
    detResp,      \* detection: the detection call made in this step and its response
    row,          \* scoring: the prediction and the score of one row
    rowResult,    \* scoring: the result detect_with_confidence builds for the row
    explIn,       \* explanation: the anomaly dict and the recommendation to explain
    explOut,      \* explanation: the parts generate_explanation returned, or the raise
    regen,        \* regenerate: the request between its delete and its create
    hashSeed,     \* worker processes: the string hash seed each one started with
    evals,        \* worker processes: what evaluate_multiple_anomalies returned in each
    cacheRef,     \* ml views: _detector_cache[sensor_type], 0 when the key is absent
    threads,      \* ml views: the position of each request thread
    handed,       \* ml views: the detectors get_or_create_detector has returned
    viewResp      \* ml views: the last response

ruleVars == <<ctx, ruleResult, ruleTrace, ruleStatus>>

orchVars == <<readings, anomalies, recs, nextRecId, held, sig, batch,
              lastCall, batchStats>>

mlVars == <<detectors, files, clock, everTrained, savedAs, mlResult>>

labelVars == <<lbl, lblOut>>

multiVars == <<ctxs, multiResult>>

detectVars == <<sreadings, events, detResp>>

scoreVars == <<row, rowResult>>

explVars == <<explIn, explOut>>

regenVars == <<regen>>

hashVars == <<hashSeed, evals>>

viewVars == <<cacheRef, threads, handed, viewResp>>

moreVars == <<scoreVars, explVars, regenVars, hashVars, viewVars>>

auxVars == <<labelVars, multiVars, detectVars, moreVars>>

vars == <<ctx, ruleResult, ruleTrace, ruleStatus, readings, anomalies, recs,
          nextRecId, held, sig, batch, lastCall, batchStats,
          detectors, files, clock, everTrained, savedAs, mlResult,
          lbl, lblOut, ctxs, multiResult, sreadings, events, detResp,
          row, rowResult, explIn, explOut, regen, hashSeed, evals,
          cacheRef, threads, handed, viewResp>>

-----------------------------------------------------------------------------
(* Bounds                                                                  *)

\* longest recent_values list drawn for a context
MaxVals == 3

\* Python None inside numeric data
NoneVal == -1000

IsNum(v) == v # NoneVal

\* sample values: both sides of 0 and of 30, 85 and 100 themselves, a drop of
\* exactly 10% (100 -> 90) and a change of exactly 50 (-20 -> 30)
Values == {NoneVal, -20, 30, 85, 90, 100}

Confidences == {NoneVal, 30, 40, 60, 85, 90}

SensorTypes == {"moisture", "temperature", "humidity", "unknown"}

Severities == {"NORMAL", "LOW", "MEDIUM", "HIGH", "CRITICAL", "medium"}

SeqsUpTo(S, n) == UNION {[1..k -> S] : k \in 0..n}

Contexts ==
    [severity : Severities, sensor_type : SensorTypes,
     model_confidence : Confidences, recent_values : SeqsUpTo(Values, MaxVals)]

Abs(x) == IF x < 0 THEN -x ELSE x

Min(a, b) == IF a <= b THEN a ELSE b

-----------------------------------------------------------------------------
(* Rule outcomes: a rule returns None, returns a dict, or raises.          *)

NoMatch == [kind |-> "none"]

Raised == [kind |-> "raise"]

Match(rec) == [kind |-> "rec", rec |-> rec]

Rec(action, description, urgency, confidence, reasoning, num, details) ==
    [action |-> action, description |-> description, urgency |-> urgency,
     confidence |-> confidence, reasoning |-> [text |-> reasoning, num |-> num],
     details |-> details]

NoDetails == [empty |-> TRUE]

\* drop_percentage in hundredths of a percent (65 -> 45 is 3076)
DropPct(initial, current) ==
    IF initial > 0 THEN ((initial - current) * 10000) \div initial ELSE 0

\* a drop of exactly 10% counted as a rapid drop
DropAtLeast10(initial, current) == (initial - current) * 10 >= initial

\* ((initial - current) / initial) * 100 > 10, for initial > 0
DropOver10(initial, current) == (initial - current) * 10 > initial

IrrigationFailureRule(c) ==
    IF c.sensor_type # "moisture" THEN NoMatch
    ELSE IF c.severity \notin {"HIGH", "CRITICAL"} THEN NoMatch
    ELSE LET rv == c.recent_values
             general == Match(Rec("irrigation_check",
                            "Inspect irrigation system and verify water supply",
                            "medium", c.model_confidence,
                            "Abnormal moisture levels detected", 0, NoDetails))
         IN IF Len(rv) >= 3
            THEN LET initial == rv[1]
                     current == rv[Len(rv)]
                 IN IF ~IsNum(initial) THEN Raised           \* None > 0
                    ELSE IF initial <= 0 THEN general        \* drop_percentage = 0
                    ELSE IF ~IsNum(current) THEN Raised      \* initial - None
                    ELSE IF DropOver10(initial, current)
                         THEN IF ~IsNum(c.model_confidence) THEN Raised  \* None + 0.1
                              ELSE Match(Rec("immediate_irrigation_check",
                                     "Check irrigation system immediately - possible leak or pump failure",
                                     "high", Min(95, c.model_confidence + 10),
                                     "Soil moisture dropped % rapidly",
                                     DropPct(initial, current),
                                     [drop_percentage |-> DropPct(initial, current),
                                      initial_value |-> initial,
                                      current_value |-> current,
                                      time_window |-> "recent readings"]))
                         ELSE general
            ELSE general

\* the mitigation action for every severity
HeatStressAnySeverity(c) ==
    IF c.sensor_type # "temperature" THEN NoMatch
    ELSE Match(Rec("heat_stress_mitigation",
                   "Apply heat stress mitigation - increase irrigation and consider shade",
                   "high", c.model_confidence,
                   "Critical temperature levels detected", 0,
                   [recommended_actions |-> "heat_mitigation_steps"]))

HeatStressRule(c) ==
    IF c.sensor_type # "temperature" THEN NoMatch
    ELSE IF c.severity = "CRITICAL"
         THEN Match(Rec("heat_stress_mitigation",
                        "Apply heat stress mitigation - increase irrigation and consider shade",
                        "high", c.model_confidence,
                        "Critical temperature levels detected", 0,
                        [recommended_actions |-> "heat_mitigation_steps"]))
    ELSE IF c.severity \in {"HIGH", "MEDIUM"}
         THEN Match(Rec("temperature_monitoring",
                        "Monitor temperature closely and prepare heat mitigation measures",
                        "medium", c.model_confidence,
                        "Elevated temperature levels detected", 0,
                        [recommended_actions |-> "temperature_monitoring_steps"]))
    ELSE NoMatch

\* the generic branch whatever the latest value
HumidityAlwaysGeneric(c) ==
    IF c.sensor_type # "humidity" THEN NoMatch
    ELSE Match(Rec("humidity_monitoring",
                   "Monitor humidity levels and adjust management practices",
                   "low", c.model_confidence,
                   "Abnormal humidity patterns detected", 0, NoDetails))

HumidityAnomalyRule(c) ==
    IF c.sensor_type # "humidity" THEN NoMatch
    ELSE LET rv == c.recent_values
             general == Match(Rec("humidity_monitoring",
                            "Monitor humidity levels and adjust management practices",
                            "low", c.model_confidence,
                            "Abnormal humidity patterns detected", 0, NoDetails))
         IN IF Len(rv) > 0
            THEN LET current_humidity == rv[Len(rv)]
                 IN IF ~IsNum(current_humidity) THEN Raised   \* None > 85
                    ELSE IF current_humidity > 85
                         THEN Match(Rec("disease_prevention",
                                "High humidity detected - monitor for fungal diseases",
                                "medium", c.model_confidence,
                                "Humidity at % increases disease risk", current_humidity,
                                [current_humidity |-> current_humidity,
                                 risk_factors |-> "fungal_bacterial",
                                 recommended_actions |-> "disease_prevention_steps"]))
                    ELSE IF current_humidity < 30
                         THEN Match(Rec("humidity_management",
                                "Low humidity detected - crops may experience stress",
                                "medium", c.model_confidence,
                                "Humidity at % may cause crop stress", current_humidity,
                                [current_humidity |-> current_humidity,
                                 recommended_actions |-> "humidity_management_steps"]))
                    ELSE general
            ELSE general

MultipleAnomalyRule(c) == NoMatch

\* the band without its end points
LowConfidenceExclusive(c) ==
    IF ~IsNum(c.model_confidence) THEN Raised
    ELSE IF 40 < c.model_confidence /\ c.model_confidence < 60
         THEN Match(Rec("manual_inspection",
                        "Monitor closely and verify with manual inspection",
                        "low", c.model_confidence,
                        "Low model confidence - verification needed", 0,
                        [model_confidence |-> c.model_confidence,
                         recommended_actions |-> "manual_inspection_steps"]))
    ELSE NoMatch

LowConfidenceRule(c) ==
    IF ~IsNum(c.model_confidence) THEN Raised                 \* 0.4 <= None
    ELSE IF 40 <= c.model_confidence /\ c.model_confidence <= 60
         THEN Match(Rec("manual_inspection",
                        "Monitor closely and verify with manual inspection",
                        "low", c.model_confidence,
                        "Low model confidence - verification needed", 0,
                        [model_confidence |-> c.model_confidence,
                         recommended_actions |-> "manual_inspection_steps"]))
    ELSE NoMatch

\* the ranges without their end points
OutOfRangeInclusive(sensor_type, current) ==
    IF sensor_type \in {"moisture", "humidity"} THEN current <= 0 \/ current >= 100
    ELSE IF sensor_type = "temperature" THEN current <= -20 \/ current >= 60
    ELSE FALSE

\* the range test of SensorMalfunctionRule; "raise" when it compares None
OutOfRange(sensor_type, current) ==
    IF sensor_type \in {"moisture", "humidity"} THEN current < 0 \/ current > 100
    ELSE IF sensor_type = "temperature" THEN current < -20 \/ current > 60
    ELSE FALSE

SensorMalfunctionRule(c) ==
    LET rv == c.recent_values
    IN IF Len(rv) < 2 THEN NoMatch
       ELSE LET current == rv[Len(rv)]
                previous == rv[Len(rv) - 1]
                known == c.sensor_type \in {"moisture", "temperature", "humidity"}
                hit(reason, num) ==
                    Match(Rec("sensor_check",
                              "Check sensor functionality - possible malfunction detected",
                              "high", 80, reason, num,
                              [current_reading |-> current,
                               previous_reading |-> previous,
                               sensor_type |-> c.sensor_type,
                               recommended_actions |-> "sensor_check_steps"]))
            IN IF known /\ ~IsNum(current) THEN Raised          \* None < 0
               ELSE IF known /\ OutOfRange(c.sensor_type, current)
                    THEN hit("reading is outside valid range", current)
               ELSE IF ~IsNum(current) \/ ~IsNum(previous) THEN Raised  \* current - previous
               ELSE IF Abs(current - previous) > 50
                    THEN hit("Sudden change is unlikely", Abs(current - previous))
               ELSE NoMatch

-----------------------------------------------------------------------------
(* RuleEngine                                                              *)

RulePriority(name) ==
    CASE name = "multiple_anomaly" -> 10
      [] name = "irrigation_failure" -> 9
      [] name = "heat_stress" -> 8
      [] name = "humidity_anomaly" -> 7
      [] name = "sensor_malfunction" -> 6
      [] name = "low_confidence" -> 3

\* self.rules after the sort by priority, highest first
RuleRegistry ==
    <<"multiple_anomaly", "irrigation_failure", "heat_stress",
      "humidity_anomaly", "sensor_malfunction", "low_confidence">>

RuleEval(name, c) ==
    CASE name = "multiple_anomaly" -> MultipleAnomalyRule(c)
      [] name = "irrigation_failure" -> IrrigationFailureRule(c)
      [] name = "heat_stress" -> HeatStressRule(c)
      [] name = "humidity_anomaly" -> HumidityAnomalyRule(c)
      [] name = "sensor_malfunction" -> SensorMalfunctionRule(c)
      [] name = "low_confidence" -> LowConfidenceRule(c)

DefaultRecommendation(c) ==
    Rec("general_monitoring",
        "Continue monitoring - anomaly detected but no specific action identified",
        "low", c.model_confidence,
        "Anomaly detected without specific classification", 0, NoDetails)
      @@ [rule_name |-> "default", rule_priority |-> 0]

\* a loop that stops at the first rule that raises
RECURSIVE RuleLoopAbortOnRaise(_, _, _)
RuleLoopAbortOnRaise(rules, i, c) ==
    IF i > Len(rules) THEN [recs |-> <<>>, trace |-> <<>>]
    ELSE LET name == rules[i]
             out == RuleEval(name, c)
             rest == RuleLoopAbortOnRaise(rules, i + 1, c)
             entry == <<[rule |-> name, kind |-> out.kind]>>
         IN IF out.kind = "raise" THEN [recs |-> <<>>, trace |-> entry]
            ELSE IF out.kind = "rec"
            THEN [recs |-> <<out.rec @@ [rule_name |-> name,
                                         rule_priority |-> RulePriority(name)]>> \o rest.recs,
                  trace |-> entry \o rest.trace]
            ELSE [recs |-> rest.recs, trace |-> entry \o rest.trace]

\* the loop of evaluate over rules[i..]: the recommendations list it builds and,
\* per rule it called, the rule's name and what the rule did
RECURSIVE RuleLoop(_, _, _)
RuleLoop(rules, i, c) ==
    IF i > Len(rules) THEN [recs |-> <<>>, trace |-> <<>>]
    ELSE LET name == rules[i]
             out == RuleEval(name, c)
             rest == RuleLoop(rules, i + 1, c)
             entry == <<[rule |-> name, kind |-> out.kind]>>
         IN IF out.kind = "rec"
            THEN [recs |-> <<out.rec @@ [rule_name |-> name,
                                         rule_priority |-> RulePriority(name)]>> \o rest.recs,
                  trace |-> entry \o rest.trace]
            ELSE [recs |-> rest.recs, trace |-> entry \o rest.trace]  \* None, or except: continue

\* min instead of max: the last minimal element
RECURSIVE MinByPriority(_)
MinByPriority(rlist) ==
    IF Len(rlist) = 1 THEN rlist[1]
    ELSE LET rest == MinByPriority(Tail(rlist))
         IN IF rest.rule_priority <= rlist[1].rule_priority THEN rest ELSE rlist[1]

\* max(recommendations, key=rule_priority): the first maximal element
RECURSIVE MaxByPriority(_)
MaxByPriority(rlist) ==
    IF Len(rlist) = 1 THEN rlist[1]
    ELSE LET rest == MaxByPriority(Tail(rlist))
         IN IF rest.rule_priority > rlist[1].rule_priority THEN rest ELSE rlist[1]

EvaluateWith(rules, c) ==
    LET recommendations == RuleLoop(rules, 1, c).recs
    IN IF recommendations # <<>> THEN MaxByPriority(recommendations)
       ELSE DefaultRecommendation(c)

Evaluate(c) == EvaluateWith(RuleRegistry, c)

NoResult == [action |-> "<none>"]

-----------------------------------------------------------------------------
(* ExplanationGenerator                                                    *)

\* anomaly type labels are modelled by the keywords their lower-cased text
\* contains ("temperature" contains "temp")
Keywords == {"moisture", "soil", "temperature", "temp", "humidity"}

Lower(sev) ==
    CASE sev = "CRITICAL" -> "critical"
      [] sev = "HIGH" -> "high"
      [] sev = "MEDIUM" -> "medium"
      [] sev = "LOW" -> "low"
      [] sev = "NORMAL" -> "normal"
      [] OTHER -> sev

FormatDetection(anomaly_type, severity, confidence) ==
    [sensor |-> IF "moisture" \in anomaly_type THEN "soil moisture"
                ELSE IF "temperature" \in anomaly_type THEN "temperature"
                ELSE IF "humidity" \in anomaly_type THEN "humidity"
                ELSE "sensor",
     severity_desc |-> Lower(severity),
     model_confidence |-> confidence]

FormatContext(recommendation) ==
    LET details == recommendation.details
    IN <<recommendation.reasoning>>
       \o (IF "drop_percentage" \in DOMAIN details
           THEN <<[text |-> "Soil moisture decreased % in recent readings",
                   num |-> details.drop_percentage]>> ELSE <<>>)
       \o (IF "current_humidity" \in DOMAIN details
           THEN IF details.current_humidity > 85
                THEN <<[text |-> "Current humidity level is in disease risk range",
                        num |-> details.current_humidity]>>
                ELSE IF details.current_humidity < 30
                THEN <<[text |-> "Current humidity level may stress crops",
                        num |-> details.current_humidity]>>
                ELSE <<>>
           ELSE <<>>)
       \o (IF "current_reading" \in DOMAIN details /\ "previous_reading" \in DOMAIN details
           THEN <<[text |-> "Reading changed",
                   num |-> Abs(details.current_reading - details.previous_reading)]>>
           ELSE <<>>)

\* 'Suggested action:' for low only
FormatActionLowOnly(recommendation) ==
    [prefix |-> IF recommendation.urgency = "high" THEN "Immediate action required: "
                ELSE IF recommendation.urgency = "low" THEN "Suggested action: "
                ELSE "Recommended action: ",
     description |-> recommendation.description]

FormatAction(recommendation) ==
    [prefix |-> IF recommendation.urgency = "high" THEN "Immediate action required: "
                ELSE IF recommendation.urgency = "medium" THEN "Recommended action: "
                ELSE "Suggested action: ",
     description |-> recommendation.description]

FormatConfidence(confidence) ==
    [level |-> IF confidence >= 80 THEN "high"
               ELSE IF confidence >= 60 THEN "moderate"
               ELSE "low",
     confidence |-> confidence]

\* generate_explanation raises on a None confidence ('{None:.2f}', None >= 0.8)
\* and on a None reading in the details it formats
ExplanationRaises(anomaly_dict, recommendation) ==
    \/ ~IsNum(anomaly_dict.model_confidence)
    \/ ~IsNum(recommendation.confidence)
    \/ /\ "previous_reading" \in DOMAIN recommendation.details
       /\ ~IsNum(recommendation.details.previous_reading)

\* the parts of the explanation text, in the order they are concatenated
GenerateExplanation(anomaly_dict, recommendation) ==
    <<[part |-> "time", value |-> anomaly_dict.timestamp],
      [part |-> "detection",
       value |-> FormatDetection(anomaly_dict.anomaly_type, anomaly_dict.severity,
                                 anomaly_dict.model_confidence)],
      [part |-> "context", value |-> FormatContext(recommendation)],
      [part |-> "action", value |-> FormatAction(recommendation)],
      [part |-> "confidence", value |-> FormatConfidence(recommendation.confidence)]>>

-----------------------------------------------------------------------------
(* AgentDecisionEngine                                                     *)

\* process_anomaly looks 6 hours back
HoursWindow == 6

\* values[-10:]
RecentLimit == 10

ExtractSensorType(anomaly_type) ==
    IF "moisture" \in anomaly_type \/ "soil" \in anomaly_type THEN "moisture"
    ELSE IF "temperature" \in anomaly_type \/ "temp" \in anomaly_type THEN "temperature"
    ELSE IF "humidity" \in anomaly_type THEN "humidity"
    ELSE "unknown"

LastN(sq, n) == IF Len(sq) <= n THEN sq ELSE SubSeq(sq, Len(sq) - n + 1, Len(sq))

\* the value _get_recent_values takes from one reading, NoneVal when it takes none
ReadingValue(reading, sensor_type) ==
    IF sensor_type = "moisture" THEN reading.soil_moisture
    ELSE IF sensor_type = "temperature" THEN reading.air_temperature
    ELSE IF sensor_type = "humidity" THEN reading.air_humidity
    ELSE NoneVal

RECURSIVE ValuesOf(_, _)
ValuesOf(rs, sensor_type) ==
    IF rs = <<>> THEN <<>>
    ELSE LET v == ReadingValue(Head(rs), sensor_type)
             rest == ValuesOf(Tail(rs), sensor_type)
         IN IF Head(rs).age <= HoursWindow /\ IsNum(v) THEN <<v>> \o rest ELSE rest

GetRecentValues(rs, sensor_type) == LastN(ValuesOf(rs, sensor_type), RecentLimit)

\* the one element of a one-element set
Only(S) == CHOOSE x \in S : TRUE

\* lines 44-53: the RuleContext process_anomaly builds
BuildContext(ev, rs) ==
    LET sensor_type == ExtractSensorType(ev.anomaly_type)
    IN [severity |-> ev.severity, sensor_type |-> sensor_type,
        model_confidence |-> ev.model_confidence,
        recent_values |-> GetRecentValues(rs, sensor_type)]

\* lines 58-77: the explanation and the returned dict, [raised |-> TRUE] when
\* generate_explanation raises
ExplainAndReturn(ev, recommendation) ==
    LET anomaly_dict == [timestamp |-> ev.timestamp, anomaly_type |-> ev.anomaly_type,
                         severity |-> ev.severity,
                         model_confidence |-> ev.model_confidence]
    IN IF ExplanationRaises(anomaly_dict, recommendation) THEN [raised |-> TRUE]
       ELSE [raised |-> FALSE,
             action |-> recommendation.action,
             explanation |-> GenerateExplanation(anomaly_dict, recommendation),
             confidence |-> recommendation.confidence,
             urgency |-> recommendation.urgency,
             details |-> recommendation.details]

\* process_anomaly: [raised |-> TRUE] or the dict it returns.  The context and
\* the recommendation are each computed once.
ProcessAnomaly(ev, rs) ==
    Only({Only({ExplainAndReturn(ev, recommendation) :
                   recommendation \in {Evaluate(context)}}) :
             context \in {BuildContext(ev, rs)}})

-----------------------------------------------------------------------------
(* The stores and the model instances                                      *)

\* most anomaly events the store holds
MaxAnomalies == 2

\* the timestamps anomalies are created with: equal, rising and falling
\* sequences of them occur
Timestamps == {1, 2}

\* the 'recommendation' cache of an AnomalyEvent instance: not looked up yet,
\* looked up and absent, an AgentRecommendation object that was never saved,
\* or the id of the AgentRecommendation object it holds
CacheUnset == -1

CacheNone == 0

CacheUnsaved == -2

\* create_recommendation_for_anomaly returned None
RetNone == 0

\* the anomaly of the service tests: 'moisture_anomaly', HIGH, 0.85
AnomalyKinds ==
    {[anomaly_type |-> {"moisture"}, severity |-> "HIGH", model_confidence |-> 85]}

Reading(age, m, t, h) ==
    [age |-> age, soil_moisture |-> m, air_temperature |-> t, air_humidity |-> h]

ReadingSets ==
    {<<Reading(8, 90, 20, 65), Reading(3, 65, 20, 65), Reading(2, 65, NoneVal, 65),
       Reading(1, 20, 65, 65)>>}

AnomalyIds == 1..Len(anomalies)

\* the id of the persisted recommendation of anomaly a, 0 when it has none
RecIdOf(a) ==
    IF \E r \in recs : r.anomaly_event = a
    THEN (CHOOSE r \in recs : r.anomaly_event = a).id
    ELSE 0

Unprocessed == {a \in AnomalyIds : RecIdOf(a) = 0}

\* no constraint at all
NeverViolated(a) == FALSE

\* the one-to-one relation of AgentRecommendation to AnomalyEvent: a second
\* row for the same anomaly is refused
OneToOneViolated(a) == RecIdOf(a) # 0

\* AgentRecommendation.objects.create: the row is inserted unless the store
\* fails or refuses it
InsertRec(a, result, dbFault) ==
    IF dbFault \/ OneToOneViolated(a)
    THEN [ok |-> FALSE, recs |-> recs, nextRecId |-> nextRecId]
    ELSE [ok |-> TRUE,
          recs |-> recs \cup {[id |-> nextRecId, anomaly_event |-> a,
                               recommended_action |-> result.action,
                               explanation_text |-> result.explanation,
                               confidence |-> result.confidence]},
          nextRecId |-> nextRecId + 1]

\* hasattr(anomaly_event, 'recommendation'): the instance answers from its cache
\* and asks the store only when it has not looked yet; the answer is cached
LookupRecommendation(a, cache) == IF cache = CacheUnset THEN RecIdOf(a) ELSE cache

-----------------------------------------------------------------------------
(* AgentRecommendationService.create_recommendation_for_anomaly            *)

ProcessFaults == {"none", "context", "explanation"}

\* a call that ignores the existence check
CheckAndProcessNoCheck(a, ev, cache, fault) ==
    Only({IF fault # "none" \/ result.raised
          THEN [done |-> TRUE, ret |-> RetNone, cache |-> cache, result |-> result]
          ELSE [done |-> FALSE, ret |-> RetNone, cache |-> cache, result |-> result] :
             result \in {ProcessAnomaly(ev, readings)}})

\* lines 141-146: the existence check and process_anomaly
CheckAndProcess(a, ev, cache, fault) ==
    Only({IF found # CacheNone
          THEN [done |-> TRUE, ret |-> found, cache |-> found, result |-> result]
          ELSE IF fault # "none" \/ result.raised
          THEN [done |-> TRUE, ret |-> RetNone, cache |-> found, result |-> result]
          ELSE [done |-> FALSE, ret |-> RetNone, cache |-> found, result |-> result] :
             found \in {LookupRecommendation(a, cache)},
             result \in {ProcessAnomaly(ev, readings)}})

\* a persist whose failure is not caught: the unsaved object is handed back
PersistUncaught(a, result, dbFault) ==
    LET ins == InsertRec(a, result, dbFault)
    IN IF ins.ok
       THEN [ret |-> nextRecId, cache |-> nextRecId, created |-> TRUE,
             recs |-> ins.recs, nextRecId |-> ins.nextRecId]
       ELSE [ret |-> CacheUnsaved, cache |-> CacheUnsaved, created |-> ins.recs # recs,
             recs |-> ins.recs, nextRecId |-> ins.nextRecId]

\* lines 149-162: objects.create and the except clause.  The constructor puts
\* the new object in the instance's cache before the row is saved.
Persist(a, result, dbFault) ==
    LET ins == InsertRec(a, result, dbFault)
    IN IF ins.ok
       THEN [ret |-> nextRecId, cache |-> nextRecId, created |-> TRUE,
             recs |-> ins.recs, nextRecId |-> ins.nextRecId]
       ELSE [ret |-> RetNone, cache |-> CacheUnsaved, created |-> FALSE,
             recs |-> ins.recs, nextRecId |-> ins.nextRecId]

\* why the save failed, "none" when it did not
PersistFault(a, dbFault) ==
    IF dbFault THEN "persist" ELSE IF OneToOneViolated(a) THEN "duplicate" ELSE "none"

Idle == [pc |-> "idle"]

Holding(a, cache) == [anomaly |-> a, cache |-> cache]

\* no instance is held
NoInstance == Holding(0, CacheUnset)

NoCall == [caller |-> "none"]

NoStats == [total_unprocessed |-> -1]

Returned(caller, a, ret, fault, existed, created) ==
    [caller |-> caller, anomaly |-> a, ret |-> ret, fault |-> fault,
     existed |-> existed, created |-> created]

-----------------------------------------------------------------------------
(* Anomaly creation and the post_save handler (signals.py)                 *)

\* a handler that does not look at the created flag
SignalGuardIgnoringCreated(created, a, cache) ==
    Only({[skip |-> found # CacheNone, cache |-> found] :
             found \in {LookupRecommendation(a, cache)}})

\* lines 16-20 of signals.py: the handler returns at once for a save that did
\* not create the row, and for an instance that has a recommendation
SignalGuard(created, a, cache) ==
    IF ~created
    THEN [skip |-> TRUE, cache |-> cache]
    ELSE Only({[skip |-> found # CacheNone, cache |-> found] :
                  found \in {LookupRecommendation(a, cache)}})

\* AnomalyEvent.objects.create and, in the same call, create_agent_recommendation
\* up to the moment the recommendation is about to be saved.  fault "crash":
\* the process dies after the event row is written.
CreateAnomaly(kind, ts, fault) ==
    /\ Len(anomalies) < MaxAnomalies
    /\ sig.pc = "idle"
    /\ \E a \in {Len(anomalies) + 1}, ev \in {kind @@ [timestamp |-> ts]} :
       \E guard \in {SignalGuard(TRUE, a, CacheUnset)} :
       \E found \in {guard.cache} :
       \E p1 \in {CheckAndProcess(a, ev, found, fault)} :
          /\ anomalies' = Append(anomalies, ev)
          /\ IF fault = "crash"
             THEN /\ held' = Holding(a, CacheUnset)
                  /\ lastCall' = NoCall
                  /\ UNCHANGED sig
             ELSE IF guard.skip
             THEN /\ held' = Holding(a, found)
                  /\ lastCall' = NoCall
                  /\ UNCHANGED sig
             ELSE IF p1.done
             THEN /\ held' = Holding(a, p1.cache)
                  /\ lastCall' = Returned("signal", a, p1.ret, fault, 0, FALSE)
                  /\ UNCHANGED sig
             ELSE /\ held' = Holding(a, p1.cache)
                  /\ sig' = [pc |-> "persist", anomaly |-> a, result |-> p1.result]
                  /\ lastCall' = NoCall
    /\ UNCHANGED <<readings, recs, nextRecId, batch, ruleVars, mlVars, auxVars>>
    /\ batchStats' = NoStats

\* the handler's call saves the recommendation and returns
SignalPersist(dbFault) ==
    /\ sig.pc = "persist"
    /\ \E a \in {sig.anomaly} :
       \E p2 \in {Persist(a, sig.result, dbFault)} :
          /\ recs' = p2.recs
          /\ nextRecId' = p2.nextRecId
          /\ held' = IF held.anomaly = a THEN Holding(a, p2.cache) ELSE held
          /\ lastCall' = Returned("signal", a, p2.ret,
                                  PersistFault(a, dbFault), 0, p2.created)
    /\ sig' = Idle
    /\ UNCHANGED <<readings, anomalies, batch, ruleVars, mlVars, auxVars>>
    /\ batchStats' = NoStats

\* save() on the instance its creator holds: post_save fires with
\* created=False and create_agent_recommendation runs once more
SaveExisting(fault, dbFault) ==
    /\ held.anomaly \in AnomalyIds
    /\ ~(sig.pc = "persist" /\ sig.anomaly = held.anomaly)
    /\ \E a \in {held.anomaly} :
       \E guard \in {SignalGuard(FALSE, a, held.cache)} :
          IF guard.skip
          THEN /\ held' = Holding(a, guard.cache)
               /\ lastCall' = Returned("save", a, RetNone, "none", RecIdOf(a), FALSE)
               /\ UNCHANGED <<recs, nextRecId>>
          ELSE \E p1 \in {CheckAndProcess(a, anomalies[a], guard.cache, fault)} :
               IF p1.done
               THEN /\ held' = Holding(a, p1.cache)
                    /\ lastCall' = Returned("save", a, p1.ret,
                                            IF p1.ret = RetNone THEN fault ELSE "none",
                                            RecIdOf(a), FALSE)
                    /\ UNCHANGED <<recs, nextRecId>>
               ELSE \E p2 \in {Persist(a, p1.result, dbFault)} :
                    /\ held' = Holding(a, p2.cache)
                    /\ recs' = p2.recs
                    /\ nextRecId' = p2.nextRecId
                    /\ lastCall' = Returned("save", a, p2.ret,
                                            PersistFault(a, dbFault),
                                            RecIdOf(a), p2.created)
    /\ UNCHANGED <<readings, anomalies, sig, batch, ruleVars, mlVars, auxVars>>
    /\ batchStats' = NoStats

-----------------------------------------------------------------------------
(* A caller invoking create_recommendation_for_anomaly on the instance it   *)
(* holds (tests.py, test_duplicate_recommendation_prevention)              *)

DirectCall(fault, dbFault) ==
    /\ held.anomaly \in AnomalyIds
    /\ ~(sig.pc = "persist" /\ sig.anomaly = held.anomaly)
    /\ \E a \in {held.anomaly} :
       \E p1 \in {CheckAndProcess(a, anomalies[a], held.cache, fault)} :
          IF p1.done
          THEN /\ held' = Holding(a, p1.cache)
               /\ lastCall' = Returned("direct", a, p1.ret,
                                       IF p1.ret = RetNone THEN fault ELSE "none",
                                       RecIdOf(a), FALSE)
               /\ UNCHANGED <<recs, nextRecId>>
          ELSE \E p2 \in {Persist(a, p1.result, dbFault)} :
               /\ held' = Holding(a, p2.cache)
               /\ recs' = p2.recs
               /\ nextRecId' = p2.nextRecId
               /\ lastCall' = Returned("direct", a, p2.ret,
                                       PersistFault(a, dbFault),
                                       RecIdOf(a), p2.created)
    /\ UNCHANGED <<readings, anomalies, sig, batch, ruleVars, mlVars, auxVars>>
    /\ batchStats' = NoStats

-----------------------------------------------------------------------------
(* AgentRecommendationService.batch_process_unprocessed_anomalies          *)

IsPerm(q, S) ==
    /\ Len(q) = Cardinality(S)
    /\ {q[i] : i \in 1..Len(q)} = S

\* the orders in which order_by('timestamp') may deliver the set S of anomalies
TimestampOrders(S) ==
    {q \in [1..Cardinality(S) -> S] :
        /\ IsPerm(q, S)
        /\ \A i, j \in 1..Len(q) :
              i < j => anomalies[q[i]].timestamp <= anomalies[q[j]].timestamp}

\* unprocessed.count()
BatchCount ==
    /\ batch.pc = "idle"
    /\ batch' = [pc |-> "counted", total |-> Cardinality(Unprocessed),
                 existing |-> Len(anomalies)]
    /\ UNCHANGED <<readings, anomalies, recs, nextRecId, held, sig, ruleVars, mlVars, auxVars>>
    /\ batchStats' = NoStats
    /\ lastCall' = NoCall

\* for anomaly in unprocessed: the query set is read when the loop starts
BatchFetch ==
    /\ batch.pc = "counted"
    /\ \E q \in TimestampOrders(Unprocessed) :
          batch' = [pc |-> "iter", total |-> batch.total, existing |-> batch.existing,
                    queue |-> q, snapshot |-> q, attempted |-> <<>>,
                    processed |-> 0, failed |-> 0, errors |-> <<>>, rets |-> <<>>]
    /\ UNCHANGED <<readings, anomalies, recs, nextRecId, held, sig, ruleVars, mlVars, auxVars>>
    /\ batchStats' = NoStats
    /\ lastCall' = NoCall

\* a loop that stops at the first failed item
BatchAfterItemAbort(b, a, ret) ==
    IF ret # RetNone
    THEN [pc |-> "iter", total |-> b.total, existing |-> b.existing,
          queue |-> Tail(b.queue), snapshot |-> b.snapshot,
          attempted |-> Append(b.attempted, a),
          processed |-> b.processed + 1, failed |-> b.failed, errors |-> b.errors, rets |-> Append(b.rets, ret)]
    ELSE [pc |-> "iter", total |-> b.total, existing |-> b.existing,
          queue |-> <<>>, snapshot |-> b.snapshot,
          attempted |-> Append(b.attempted, a),
          processed |-> b.processed, failed |-> b.failed + 1,
          errors |-> Append(b.errors, a), rets |-> Append(b.rets, ret)]

\* a loop that counts every item as processed
BatchAfterItemCountsAll(b, a, ret) ==
    IF ret # RetNone
    THEN [pc |-> "iter", total |-> b.total, existing |-> b.existing,
          queue |-> Tail(b.queue), snapshot |-> b.snapshot,
          attempted |-> Append(b.attempted, a),
          processed |-> b.processed + 1, failed |-> b.failed, errors |-> b.errors, rets |-> Append(b.rets, ret)]
    ELSE [pc |-> "iter", total |-> b.total, existing |-> b.existing,
          queue |-> Tail(b.queue), snapshot |-> b.snapshot,
          attempted |-> Append(b.attempted, a),
          processed |-> b.processed + 1, failed |-> b.failed + 1,
          errors |-> Append(b.errors, a), rets |-> Append(b.rets, ret)]

\* lines 184-191: the bookkeeping after one item
BatchAfterItem(b, a, ret) ==
    IF ret # RetNone
    THEN [pc |-> "iter", total |-> b.total, existing |-> b.existing,
          queue |-> Tail(b.queue), snapshot |-> b.snapshot,
          attempted |-> Append(b.attempted, a),
          processed |-> b.processed + 1, failed |-> b.failed, errors |-> b.errors, rets |-> Append(b.rets, ret)]
    ELSE [pc |-> "iter", total |-> b.total, existing |-> b.existing,
          queue |-> Tail(b.queue), snapshot |-> b.snapshot,
          attempted |-> Append(b.attempted, a),
          processed |-> b.processed, failed |-> b.failed + 1,
          errors |-> Append(b.errors, a), rets |-> Append(b.rets, ret)]

\* one item of the loop, up to the moment its recommendation is about to be
\* saved; the instance comes from the query, its cache is empty
BatchItemCheck(fault) ==
    /\ batch.pc = "iter"
    /\ batch.queue # <<>>
    /\ \E a \in {Head(batch.queue)} :
       \E p1 \in {CheckAndProcess(a, anomalies[a], CacheUnset, fault)} :
          IF p1.done
          THEN /\ batch' = BatchAfterItem(batch, a, p1.ret)
               /\ lastCall' = Returned("batch", a, p1.ret,
                                       IF p1.ret = RetNone THEN fault ELSE "none",
                                       RecIdOf(a), FALSE)
          ELSE /\ batch' = [batch EXCEPT !.pc = "persist"]
                              @@ [result |-> p1.result, item_existed |-> RecIdOf(a)]
               /\ lastCall' = NoCall
    /\ UNCHANGED <<readings, anomalies, recs, nextRecId, held, sig, ruleVars, mlVars, auxVars>>
    /\ batchStats' = NoStats

BatchItemPersist(dbFault) ==
    /\ batch.pc = "persist"
    /\ \E a \in {Head(batch.queue)} :
       \E p2 \in {Persist(a, batch.result, dbFault)} :
          /\ recs' = p2.recs
          /\ nextRecId' = p2.nextRecId
          /\ batch' = BatchAfterItem(batch, a, p2.ret)
          /\ lastCall' = Returned("batch", a, p2.ret,
                                  PersistFault(a, dbFault),
                                  batch.item_existed, p2.created)
    /\ UNCHANGED <<readings, anomalies, held, sig, ruleVars, mlVars, auxVars>>
    /\ batchStats' = NoStats

\* the loop is over: the statistics are returned.  snapshot, attempted, rets
\* and existing record the pass: the query's rows, the items the loop took,
\* what each call returned and the number of anomalies when the pass began.
BatchReturn ==
    /\ batch.pc = "iter"
    /\ batch.queue = <<>>
    /\ batchStats' = [total_unprocessed |-> batch.total, processed |-> batch.processed,
                      failed |-> batch.failed, errors |-> batch.errors,
                      snapshot |-> batch.snapshot, attempted |-> batch.attempted,
                      rets |-> batch.rets, existing |-> batch.existing]
    /\ batch' = Idle
    /\ UNCHANGED <<readings, anomalies, recs, nextRecId, held, sig, ruleVars, mlVars, auxVars>>
    /\ lastCall' = NoCall

-----------------------------------------------------------------------------
(* ml_module/anomaly_detector.py: IsolationForestDetector                   *)
(* Scores, confidences and contamination are in hundredths.  A data row is  *)
(* one integer; a matrix is a sequence of rows.                             *)

\* most rows of a matrix handed to predict / get_anomaly_scores
MaxRows == 2

\* most successful trainings, each reading datetime.now()
MaxClock == 2

MinTrainingSamples == 10

DefaultContamination == 10

DefaultRandomState == 42

\* row counts of the training matrices: empty, one below the minimum, the
\* minimum, above it
TrainSizes == {0, MinTrainingSamples - 1, MinTrainingSamples, MinTrainingSamples + 2}

RowValues == {0, 4}

Matrices == UNION {[1..k -> RowValues] : k \in 1..MaxRows}

\* the constructor arguments in use: the defaults and one other pair
DetectorConfigs == {[contamination |-> DefaultContamination, random_state |-> DefaultRandomState],
                    [contamination |-> 20, random_state |-> 7]}

\* a path with a directory part, and a bare file name
Paths == {"models/moisture_model.pkl", "moisture_model.pkl"}

HasDirectory(path) == path = "models/moisture_model.pkl"

NotFitted == [n |-> 0]

NoDetector == [is_trained |-> "<no object>"]

NoFile == [is_trained |-> "<no file>"]

NoMLResult == [op |-> "none"]

NotTrainedError ==
    [type |-> "ValueError", message |-> "Model not trained yet! Call train() first."]

InsufficientSamplesError ==
    [type |-> "ValueError", message |-> "Need at least 10 samples for training"]

UntrainedSaveError ==
    [type |-> "ValueError", message |-> "Cannot save untrained model"]

ModelFileNotFound ==
    [type |-> "FileNotFoundError", message |-> "Model file not found"]

\* os.makedirs('') of a path without a directory part
MakedirsError ==
    [type |-> "FileNotFoundError", message |-> "No such file or directory: ''"]

\* sklearn's answer of an estimator that was never fitted
NotFittedError ==
    [type |-> "NotFittedError", message |-> "This IsolationForest instance is not fitted yet"]

Ok(v) == [ok |-> TRUE, value |-> v]

Err(e) == [ok |-> FALSE, error |-> e]

\* IsolationForest(contamination, random_state, ...), not fitted
NewModel(contamination, random_state) ==
    [contamination |-> contamination, random_state |-> random_state, fitted |-> NotFitted]

\* __init__
NewDetector(contamination, random_state) ==
    [model |-> NewModel(contamination, random_state),
     is_trained |-> FALSE,
     training_data_size |-> 0,
     training_date |-> NoneVal]

\* IsolationForest.fit: the fitted state is a function of the data, of which
\* the model keeps the number of rows
ModelFit(m, n) == [m EXCEPT !.fitted = [n |-> n]]

\* IsolationForest.score_samples of one row: negative, lower = more anomalous,
\* a deterministic function of the fitted state, the seed and the row
RowScore(m, x) ==
    -Min(100, 15 + 10 * Abs(x - (m.fitted.n - MinTrainingSamples)) + (m.random_state % 3))

\* the threshold fit derives from the contamination rate
ModelOffset(m) == -(30 - m.contamination)

ModelScoreSamples(m, X) ==
    IF m.fitted = NotFitted THEN Err(NotFittedError)
    ELSE Ok([i \in 1..Len(X) |-> RowScore(m, X[i])])

\* IsolationForest.predict: -1 below the threshold, 1 otherwise
ModelPredict(m, X) ==
    IF m.fitted = NotFitted THEN Err(NotFittedError)
    ELSE Ok([i \in 1..Len(X) |-> IF RowScore(m, X[i]) - ModelOffset(m) < 0 THEN -1 ELSE 1])

\* train that fits whatever it is given
TrainNoMinimum(d, n, now) ==
    [ret |-> Ok([trained |-> TRUE, n_samples |-> n, training_date |-> now]),
     detector |-> [d EXCEPT !.model = ModelFit(d.model, n),
                            !.is_trained = TRUE,
                            !.training_data_size = n,
                            !.training_date = now]]

\* train
Train(d, n, now) ==
    IF n < MinTrainingSamples
    THEN [ret |-> Err(InsufficientSamplesError), detector |-> d]
    ELSE [ret |-> Ok([trained |-> TRUE, n_samples |-> n, training_date |-> now]),
          detector |-> [d EXCEPT !.model = ModelFit(d.model, n),
                                 !.is_trained = TRUE,
                                 !.training_data_size = n,
                                 !.training_date = now]]

\* predict without the is_trained test
PredictUnguarded(d, X) == ModelPredict(d.model, X)

\* predict
Predict(d, X) ==
    IF ~d.is_trained THEN Err(NotTrainedError) ELSE ModelPredict(d.model, X)

\* get_anomaly_scores
GetAnomalyScores(d, X) ==
    IF ~d.is_trained THEN Err(NotTrainedError) ELSE ModelScoreSamples(d.model, X)

\* the thresholds taken inclusively
CalculateSeverityInclusive(score, is_anomaly) ==
    IF ~is_anomaly THEN "NORMAL"
    ELSE IF score <= -40 THEN "CRITICAL"
    ELSE IF score <= -30 THEN "HIGH"
    ELSE IF score <= -20 THEN "MEDIUM"
    ELSE "LOW"

\* _calculate_severity
CalculateSeverity(score, is_anomaly) ==
    IF ~is_anomaly THEN "NORMAL"
    ELSE IF score < -40 THEN "CRITICAL"
    ELSE IF score < -30 THEN "HIGH"
    ELSE IF score < -20 THEN "MEDIUM"
    ELSE "LOW"

\* the confidence without the min
DetectionConfidenceUnclamped(score, is_anomaly) ==
    IF is_anomaly THEN 2 * Abs(score)
    ELSE IF score > 0 THEN 2 * score ELSE 0

\* the confidence detect_with_confidence derives from a score
DetectionConfidence(score, is_anomaly) ==
    IF is_anomaly THEN Min(100, 2 * Abs(score))
    ELSE IF score > 0 THEN Min(100, 2 * score) ELSE 0

\* the body of the loop over zip(predictions, scores)
DetectionResult(i, pred, score) ==
    LET is_anomaly == pred = -1
    IN [index |-> i,
        is_anomaly |-> is_anomaly,
        anomaly_score |-> score,
        confidence |-> DetectionConfidence(score, is_anomaly),
        severity |-> CalculateSeverity(score, is_anomaly)]

\* detect_with_confidence
DetectWithConfidence(d, X) ==
    IF ~d.is_trained THEN Err(NotTrainedError)
    ELSE LET predictions == Predict(d, X)
             scores == GetAnomalyScores(d, X)
         IN IF ~predictions.ok THEN predictions
            ELSE IF ~scores.ok THEN scores
            ELSE Ok([i \in 1..Len(X) |->
                      DetectionResult(i - 1, predictions.value[i], scores.value[i])])

\* save_model: the pickled dictionary, or the error
SaveModel(d, path) ==
    IF ~d.is_trained THEN Err(UntrainedSaveError)
    ELSE IF ~HasDirectory(path) THEN Err(MakedirsError)
    ELSE Ok([model |-> d.model,
             is_trained |-> d.is_trained,
             training_data_size |-> d.training_data_size,
             training_date |-> d.training_date,
             contamination |-> d.model.contamination,
             random_state |-> d.model.random_state])

\* load_model that keeps the estimator of the new instance
LoadModelFreshEstimator(blob) ==
    IF blob = NoFile THEN Err(ModelFileNotFound)
    ELSE Ok([NewDetector(blob.contamination, blob.random_state)
                EXCEPT !.is_trained = blob.is_trained,
                       !.training_data_size = blob.training_data_size,
                       !.training_date = blob.training_date])

\* load_model: a new instance from the stored contamination and seed, then the
\* stored estimator and training state put in
LoadModel(blob) ==
    IF blob = NoFile THEN Err(ModelFileNotFound)
    ELSE Ok([NewDetector(blob.contamination, blob.random_state)
                EXCEPT !.model = blob.model,
                       !.is_trained = blob.is_trained,
                       !.training_data_size = blob.training_data_size,
                       !.training_date = blob.training_date])

Slots == {1, 2}

Live(s) == detectors[s] # NoDetector

MLCall(op, slot, arg, ret) == [op |-> op, slot |-> slot, arg |-> arg, ret |-> ret]

\* detector.train(matrix of n rows)
MLTrain(s, n) ==
    /\ Live(s)
    /\ n < MinTrainingSamples \/ clock < MaxClock
    /\ LET t == Train(detectors[s], n, clock)
       IN /\ detectors' = [detectors EXCEPT ![s] = t.detector]
          /\ clock' = IF t.ret.ok THEN clock + 1 ELSE clock
          /\ everTrained' = [everTrained EXCEPT ![s] = @ \/ t.ret.ok]
          /\ mlResult' = MLCall("train", s, n, t.ret)
    /\ UNCHANGED <<files, savedAs, ruleVars, orchVars, auxVars>>

\* detector.predict(X)
MLPredict(s, X) ==
    /\ Live(s)
    /\ mlResult' = MLCall("predict", s, X, Predict(detectors[s], X))
    /\ UNCHANGED <<detectors, files, clock, everTrained, savedAs, ruleVars, orchVars, auxVars>>

\* detector.get_anomaly_scores(X)
MLScore(s, X) ==
    /\ Live(s)
    /\ mlResult' = MLCall("score", s, X, GetAnomalyScores(detectors[s], X))
    /\ UNCHANGED <<detectors, files, clock, everTrained, savedAs, ruleVars, orchVars, auxVars>>

\* detector.detect_with_confidence(X)
MLDetect(s, X) ==
    /\ Live(s)
    /\ mlResult' = MLCall("detect", s, X, DetectWithConfidence(detectors[s], X))
    /\ UNCHANGED <<detectors, files, clock, everTrained, savedAs, ruleVars, orchVars, auxVars>>

\* detector.save_model(path)
MLSave(s, path) ==
    /\ Live(s)
    /\ LET w == SaveModel(detectors[s], path)
       IN /\ files' = IF w.ok THEN [files EXCEPT ![path] = w.value] ELSE files
          /\ savedAs' = IF w.ok THEN [savedAs EXCEPT ![path] = detectors[s]] ELSE savedAs
          /\ mlResult' = MLCall("save", s, path, IF w.ok THEN Ok(NoneVal) ELSE w)
    /\ UNCHANGED <<detectors, clock, everTrained, ruleVars, orchVars, auxVars>>

\* IsolationForestDetector.load_model(path): the loaded detector takes slot 2
MLLoad(path) ==
    /\ LET l == LoadModel(files[path])
       IN /\ detectors' = IF l.ok THEN [detectors EXCEPT ![2] = l.value] ELSE detectors
          /\ everTrained' = IF l.ok THEN [everTrained EXCEPT ![2] = TRUE] ELSE everTrained
          /\ mlResult' = MLCall("load", 2, path, IF l.ok THEN Ok(NoneVal) ELSE l)
    /\ UNCHANGED <<files, clock, savedAs, ruleVars, orchVars, auxVars>>

-----------------------------------------------------------------------------
(* Rule engine specification: evaluate applied to every bounded context    *)

NoLabel == [anomaly_type |-> {}, severity |-> "NORMAL", model_confidence |-> 0]

NoLabelOut == [sensor_type |-> "<none>"]

NoResponse == [call |-> "none"]

\* no label described
LabelRest ==
    /\ lbl = NoLabel
    /\ lblOut = NoLabelOut

\* no evaluate_multiple_anomalies call
MultiRest ==
    /\ ctxs = <<>>
    /\ multiResult = NoResult

\* no detection request
DetectRest ==
    /\ sreadings = <<>>
    /\ events = <<>>
    /\ detResp = NoResponse

NoRow == [prediction |-> 0, score |-> 0]

NoRowResult == [index |-> -1]

\* no row scored
ScoreRest ==
    /\ row = NoRow
    /\ rowResult = NoRowResult

NoExplIn == [anomaly |-> "<none>"]

NoExplOut == [raised |-> FALSE, parts |-> <<>>]

\* nothing to explain
ExplRest ==
    /\ explIn = NoExplIn
    /\ explOut = NoExplOut

\* no regenerate request in flight
RegenRest == regen = [pc |-> "idle"]

\* no worker process
HashRest ==
    /\ hashSeed = <<>>
    /\ evals = <<>>

NoViewResp == [call |-> "none"]

\* no request to the ml views
ViewRest ==
    /\ cacheRef = 0
    /\ threads = <<>>
    /\ handed = {}
    /\ viewResp = NoViewResp

MoreRest ==
    /\ ScoreRest
    /\ ExplRest
    /\ RegenRest
    /\ HashRest
    /\ ViewRest

AuxRest ==
    /\ LabelRest
    /\ MultiRest
    /\ DetectRest
    /\ MoreRest

\* no scorer activity
MLRest ==
    /\ detectors = <<NoDetector, NoDetector>>
    /\ files = [path \in Paths |-> NoFile]
    /\ clock = 0
    /\ everTrained = <<FALSE, FALSE>>
    /\ savedAs = [path \in Paths |-> NoDetector]
    /\ mlResult = NoMLResult

OrchRest ==
    /\ anomalies = <<>>
    /\ recs = {}
    /\ nextRecId = 1
    /\ held = NoInstance
    /\ sig = Idle
    /\ batch = Idle
    /\ lastCall = NoCall
    /\ batchStats = NoStats

\* the rule engine with no evaluation under way
RuleRest ==
    /\ ctx = [severity |-> "NORMAL", sensor_type |-> "unknown",
              model_confidence |-> 0, recent_values |-> <<>>]
    /\ ruleResult = NoResult
    /\ ruleTrace = <<>>
    /\ ruleStatus = "idle"

RuleInit ==
    /\ ctx \in Contexts
    /\ ruleResult = NoResult
    /\ ruleTrace = <<>>
    /\ ruleStatus = "idle"
    /\ readings = <<>>
    /\ OrchRest
    /\ MLRest
    /\ AuxRest

EvaluateCall ==
    /\ ruleStatus = "idle"
    /\ ruleResult' = Evaluate(ctx)
    /\ ruleTrace' = RuleLoop(RuleRegistry, 1, ctx).trace
    /\ ruleStatus' = "returned"
    /\ UNCHANGED ctx
    /\ UNCHANGED orchVars
    /\ UNCHANGED mlVars
    /\ UNCHANGED auxVars

SpecRules == RuleInit /\ [][EvaluateCall]_vars

-----------------------------------------------------------------------------
(* Recommendation service specification                                    *)

Init ==
    /\ readings \in ReadingSets
    /\ OrchRest
    /\ RuleRest
    /\ MLRest
    /\ AuxRest

Next ==
    \/ \E kind \in AnomalyKinds, ts \in Timestamps,
          fault \in ProcessFaults \cup {"crash"} : CreateAnomaly(kind, ts, fault)
    \/ \E dbFault \in BOOLEAN : SignalPersist(dbFault)
    \/ \E fault \in ProcessFaults, dbFault \in BOOLEAN : SaveExisting(fault, dbFault)
    \/ \E fault \in ProcessFaults, dbFault \in BOOLEAN : DirectCall(fault, dbFault)
    \/ BatchCount
    \/ BatchFetch
    \/ \E fault \in ProcessFaults : BatchItemCheck(fault)
    \/ \E dbFault \in BOOLEAN : BatchItemPersist(dbFault)
    \/ BatchReturn

Spec == Init /\ [][Next]_vars

-----------------------------------------------------------------------------
(* Scorer specification                                                    *)

MLInit ==
    /\ \E c \in DetectorConfigs :
          detectors = <<NewDetector(c.contamination, c.random_state), NoDetector>>
    /\ files = [path \in Paths |-> NoFile]
    /\ clock = 0
    /\ everTrained = <<FALSE, FALSE>>
    /\ savedAs = [path \in Paths |-> NoDetector]
    /\ mlResult = NoMLResult
    /\ readings = <<>>
    /\ OrchRest
    /\ RuleRest
    /\ AuxRest

MLNext ==
    \/ \E s \in Slots, n \in TrainSizes : MLTrain(s, n)
    \/ \E s \in Slots, X \in Matrices : MLPredict(s, X)
    \/ \E s \in Slots, X \in Matrices : MLScore(s, X)
    \/ \E s \in Slots, X \in Matrices : MLDetect(s, X)
    \/ \E s \in Slots, path \in Paths : MLSave(s, path)
    \/ \E path \in Paths : MLLoad(path)

SpecML == MLInit /\ [][MLNext]_vars

RecsOf(a) == {r \in recs : r.anomaly_event = a}

RECURSIVE FailedItems(_, _)
FailedItems(items, rets) ==
    IF items = <<>> THEN <<>>
    ELSE IF Head(rets) = RetNone
         THEN <<Head(items)>> \o FailedItems(Tail(items), Tail(rets))
         ELSE FailedItems(Tail(items), Tail(rets))

\* C4: a failed item never aborts the pass: the pass attempts every anomaly
\* its query delivered exactly once, in timestamp order, records each failed item
\* as one error entry carrying the anomaly id, and returns its statistics.
C4_BatchIsolatesFailures ==
    batchStats # NoStats =>
        /\ batchStats.attempted = batchStats.snapshot
        /\ \A i, j \in 1..Len(batchStats.snapshot) :
              i < j => /\ batchStats.snapshot[i] # batchStats.snapshot[j]
                       /\ anomalies[batchStats.snapshot[i]].timestamp
                             <= anomalies[batchStats.snapshot[j]].timestamp
        /\ Len(batchStats.rets) = Len(batchStats.snapshot)
        /\ batchStats.errors = FailedItems(batchStats.attempted, batchStats.rets)
        /\ batchStats.failed = Len(batchStats.errors)
        /\ batchStats.processed + batchStats.failed = Len(batchStats.snapshot)

\* the first item failed and the one after it was processed
C4_Witness ==
    /\ batchStats # NoStats
    /\ Len(batchStats.snapshot) = 2
    /\ batchStats.errors = <<batchStats.snapshot[1]>>
    /\ batchStats.processed = 1
    /\ RecIdOf(batchStats.snapshot[2]) # 0

\* C5: when a batch pass returns, every anomaly that existed when the pass
\* began has a recommendation unless its processing failed in this pass; so
\* after a pass with no failed item none of them lacks one.
C5_BatchHeals ==
    batchStats # NoStats =>
        /\ \A a \in 1..batchStats.existing :
              \/ RecIdOf(a) # 0
              \/ \E i \in 1..Len(batchStats.errors) : batchStats.errors[i] = a
        /\ batchStats.failed = 0 =>
              \A a \in 1..batchStats.existing : RecIdOf(a) # 0

\* the handler left an anomaly without a recommendation and a pass gave it one
C5_Witness ==
    /\ batchStats # NoStats
    /\ batchStats.failed = 0
    /\ Len(batchStats.snapshot) >= 1
    /\ held.anomaly \in AnomalyIds
    /\ held.cache \in {CacheNone, CacheUnsaved}
    /\ RecIdOf(held.anomaly) # 0

\* C6: a call in which a step fails returns None and persists nothing.
C6_FailureReturnsNull ==
    [][(lastCall' # NoCall /\ lastCall'.fault # "none") =>
          (lastCall'.ret = RetNone /\ recs' = recs)]_vars

\* a call whose save failed in the store returned None and left no row
C6_Witness ==
    /\ lastCall # NoCall
    /\ lastCall.fault = "persist"
    /\ lastCall.ret = RetNone
    /\ RecIdOf(lastCall.anomaly) = 0

RuleNames == {RuleRegistry[i] : i \in 1..Len(RuleRegistry)}

\* the rules that return a recommendation for c
Applicable(c) == {n \in RuleNames : RuleEval(n, c).kind = "rec"}

\* the rules that raise on c
Raising(c) == {n \in RuleNames : RuleEval(n, c).kind = "raise"}

TraceKinds(trace, k) == {trace[i].rule : i \in {j \in 1..Len(trace) : trace[j].kind = k}}

\* C1: evaluate never returns null; it returns the recommendation of the
\* highest-priority rule among those that apply to the context, or, when no
\* rule applies, the fixed default (general_monitoring, low, the context's
\* model_confidence, rule_name default, rule_priority 0).
C1_EvaluateBestOrDefault ==
    ruleStatus = "returned" =>
        /\ ruleResult # NoResult
        /\ IF Applicable(ctx) = {}
           THEN /\ ruleResult.action = "general_monitoring"
                /\ ruleResult.urgency = "low"
                /\ ruleResult.confidence = ctx.model_confidence
                /\ ruleResult.rule_name = "default"
                /\ ruleResult.rule_priority = 0
           ELSE \E n \in Applicable(ctx) :
                /\ \A m \in Applicable(ctx) : RulePriority(m) <= RulePriority(n)
                /\ ruleResult = RuleEval(n, ctx).rec
                                  @@ [rule_name |-> n, rule_priority |-> RulePriority(n)]

\* two rules apply and the higher one was returned
C1_Witness ==
    /\ ruleStatus = "returned"
    /\ Cardinality(Applicable(ctx)) >= 2
    /\ ruleResult.rule_name = "humidity_anomaly"

\* C7: a rule that raises is treated as a rule that does not apply: every
\* rule of the registry is still called, in order, and the result is the one
\* evaluate gives over the registry without the raising rules.
C7_RaisingRuleSkipped ==
    (ruleStatus = "returned" /\ Raising(ctx) # {}) =>
        /\ Len(ruleTrace) = Len(RuleRegistry)
        /\ \A i \in 1..Len(RuleRegistry) : ruleTrace[i].rule = RuleRegistry[i]
        /\ TraceKinds(ruleTrace, "raise") = Raising(ctx)
        /\ ruleResult.rule_name \notin Raising(ctx)
        /\ IF Applicable(ctx) = {}
           THEN ruleResult = DefaultRecommendation(ctx)
           ELSE /\ ruleResult.rule_name \in Applicable(ctx)
                /\ \A m \in Applicable(ctx) : RulePriority(m) <= ruleResult.rule_priority

\* irrigation_failure raised and the lower-priority sensor_malfunction was returned
C7_Witness ==
    /\ ruleStatus = "returned"
    /\ "irrigation_failure" \in Raising(ctx)
    /\ ruleResult.rule_name = "sensor_malfunction"

\* the detector of slot s, once it exists
IsDetector(d) == d # NoDetector

\* C8: predict, get_anomaly_scores and detect_with_confidence on a detector on
\* which no train succeeded and which was not loaded from a file raise the
\* "not trained" error and produce no result.
C8_UntrainedNeverScores ==
    (/\ mlResult.op \in {"predict", "score", "detect"}
     /\ ~everTrained[mlResult.slot]) =>
        /\ ~mlResult.ret.ok
        /\ mlResult.ret.error = NotTrainedError

\* detect_with_confidence was refused on the constructed, never trained detector
C8_Witness ==
    /\ mlResult.op = "detect"
    /\ mlResult.slot = 1
    /\ ~everTrained[1]
    /\ mlResult.ret = Err(NotTrainedError)

\* C9: train with fewer than 10 rows raises the "need at least 10 samples"
\* error and leaves the detector as it was; train with 10 or more rows sets
\* is_trained, the sample count and the training date.
C9_TrainMinimumSamples ==
    [][mlResult'.op = "train" =>
        LET s == mlResult'.slot
            n == mlResult'.arg
        IN /\ n < 10 =>
                /\ mlResult'.ret = Err(InsufficientSamplesError)
                /\ detectors' = detectors
           /\ n >= 10 =>
                /\ mlResult'.ret.ok
                /\ detectors'[s].is_trained
                /\ detectors'[s].training_data_size = n
                /\ detectors'[s].training_date = clock
                /\ detectors'[s].model.fitted # NotFitted]_vars

\* a trained detector refused a 9-row matrix and kept its training
C9_Witness ==
    /\ mlResult.op = "train"
    /\ mlResult.arg = 9
    /\ mlResult.ret = Err(InsufficientSamplesError)
    /\ detectors[mlResult.slot].is_trained
    /\ detectors[mlResult.slot].training_data_size = 12

\* the metadata the persisted format names
Metadata(d) ==
    [contamination |-> d.model.contamination,
     random_state |-> d.model.random_state,
     training_data_size |-> d.training_data_size,
     training_date |-> d.training_date]

\* C10: load_model of a file save_model wrote yields a detector that is
\* trained, has the contamination, seed, sample count and training date of the
\* detector that was saved, and gives the same predictions and scores on every
\* matrix.
C10_SaveLoadRoundTrip ==
    (mlResult.op = "load" /\ IsDetector(savedAs[mlResult.arg])) =>
        LET saved == savedAs[mlResult.arg]
            loaded == detectors[2]
        IN /\ mlResult.ret.ok
           /\ loaded.is_trained
           /\ Metadata(loaded) = Metadata(saved)
           /\ \A X \in Matrices :
                 /\ Predict(loaded, X).ok
                 /\ Predict(loaded, X) = Predict(saved, X)
                 /\ GetAnomalyScores(loaded, X) = GetAnomalyScores(saved, X)
                 /\ DetectWithConfidence(loaded, X) = DetectWithConfidence(saved, X)

\* a detector built with other than the default contamination and seed was
\* saved, trained again, and then the file was loaded
C10_Witness ==
    /\ mlResult.op = "load"
    /\ mlResult.ret.ok
    /\ detectors[2].model.contamination # DefaultContamination
    /\ detectors[2].model.random_state # DefaultRandomState
    /\ detectors[1].is_trained
    /\ detectors[1].training_date # detectors[2].training_date

-----------------------------------------------------------------------------
(* Label specification: the two readers of an anomaly type label           *)

\* the keyword sets a label's text can have: a text that contains
\* "temperature" contains "temp"
Labels == {S \in SUBSET Keywords : "temperature" \in S => "temp" \in S}

LabelInit ==
    /\ lbl \in [anomaly_type : Labels, severity : Severities,
                model_confidence : Confidences]
    /\ lblOut = NoLabelOut
    /\ readings = <<>>
    /\ OrchRest
    /\ RuleRest
    /\ MLRest
    /\ MultiRest
    /\ DetectRest
    /\ MoreRest

\* process_anomaly's _extract_sensor_type and generate_explanation's
\* _format_detection, both applied to the same anomaly
DescribeCall ==
    /\ lblOut = NoLabelOut
    /\ lblOut' = [sensor_type |-> ExtractSensorType(lbl.anomaly_type),
                  detection |-> IF IsNum(lbl.model_confidence)
                                THEN FormatDetection(lbl.anomaly_type, lbl.severity,
                                                     lbl.model_confidence)
                                ELSE [sensor |-> "<raise>"]]
    /\ UNCHANGED lbl
    /\ UNCHANGED <<ruleVars, orchVars, mlVars, multiVars, detectVars, moreVars>>

SpecLabels == LabelInit /\ [][DescribeCall]_vars

\* the sensor name the explanation is said to use for a sensor_type
SensorName(sensor_type) ==
    CASE sensor_type = "moisture" -> "soil moisture"
      [] sensor_type = "temperature" -> "temperature"
      [] sensor_type = "humidity" -> "humidity"
      [] sensor_type = "unknown" -> "sensor"

\* C14: for every label, the sensor the explanation names is the one the
\* orchestrator inferred: moisture with 'soil moisture', temperature with
\* 'temperature', humidity with 'humidity', unknown with the generic 'sensor'.
\* Violated by a label that contains 'soil' but not 'moisture'.
C14_SameSensorRule ==
    (lblOut # NoLabelOut /\ IsNum(lbl.model_confidence))
        => lblOut.detection.sensor = SensorName(lblOut.sensor_type)

-----------------------------------------------------------------------------
(* The single rules, seen through evaluate (SpecRules)                     *)

\* a context as RuleContext types it: a float confidence and a list of floats
NumericContext(c) ==
    /\ IsNum(c.model_confidence)
    /\ \A i \in DOMAIN c.recent_values : IsNum(c.recent_values[i])

\* what the evaluate call made of rule name: "rec", "none" or "raise"
TracedKind(name) ==
    Only({ruleTrace[i].kind : i \in {j \in 1..Len(ruleTrace) : ruleTrace[j].rule = name}})

\* C16: for a numeric context with sensor_type moisture and severity HIGH or
\* CRITICAL, evaluate returns the irrigation_failure recommendation: with at
\* least 3 recent values and a drop from the first (positive) value to the last
\* of more than 10% of the first, immediate_irrigation_check, urgency high,
\* confidence min(0.95, model_confidence + 0.1); otherwise irrigation_check,
\* urgency medium, confidence model_confidence.
C16_IrrigationFailure ==
    (/\ ruleStatus = "returned"
     /\ NumericContext(ctx)
     /\ ctx.sensor_type = "moisture"
     /\ ctx.severity \in {"HIGH", "CRITICAL"})
    => LET rv == ctx.recent_values
       IN /\ ruleResult.rule_name = "irrigation_failure"
          /\ ruleResult.rule_priority = 9
          /\ IF /\ Len(rv) >= 3
                /\ rv[1] > 0
                /\ (rv[1] - rv[Len(rv)]) * 100 > 10 * rv[1]
             THEN /\ ruleResult.action = "immediate_irrigation_check"
                  /\ ruleResult.urgency = "high"
                  /\ ruleResult.confidence =
                        (IF ctx.model_confidence + 10 < 95
                         THEN ctx.model_confidence + 10 ELSE 95)
             ELSE /\ ruleResult.action = "irrigation_check"
                  /\ ruleResult.urgency = "medium"
                  /\ ruleResult.confidence = ctx.model_confidence

\* a drop of 15% (100 -> 85) at confidence 0.90: the confidence is capped at 0.95
C16_Witness ==
    /\ ruleStatus = "returned"
    /\ NumericContext(ctx)
    /\ ctx.sensor_type = "moisture"
    /\ ctx.severity = "HIGH"
    /\ ctx.recent_values = <<100, 90, 85>>
    /\ ctx.model_confidence = 90
    /\ ruleResult.action = "immediate_irrigation_check"
    /\ ruleResult.confidence = 95

\* C17: for a context with sensor_type temperature, evaluate returns
\* heat_stress_mitigation with urgency high when severity is CRITICAL and
\* temperature_monitoring with urgency medium when severity is HIGH or MEDIUM;
\* for any other severity the heat_stress rule returns nothing and the result
\* is that of a rule of lower priority or the default.
C17_HeatStress ==
    (ruleStatus = "returned" /\ ctx.sensor_type = "temperature")
    => IF ctx.severity = "CRITICAL"
       THEN /\ ruleResult.rule_name = "heat_stress"
            /\ ruleResult.action = "heat_stress_mitigation"
            /\ ruleResult.urgency = "high"
       ELSE IF ctx.severity \in {"HIGH", "MEDIUM"}
       THEN /\ ruleResult.rule_name = "heat_stress"
            /\ ruleResult.action = "temperature_monitoring"
            /\ ruleResult.urgency = "medium"
       ELSE /\ TracedKind("heat_stress") = "none"
            /\ ruleResult.rule_name \in {"sensor_malfunction", "low_confidence", "default"}
            /\ ruleResult.rule_priority < RulePriority("heat_stress")

\* a temperature context of severity LOW answered by the sensor_malfunction rule
C17_Witness ==
    /\ ruleStatus = "returned"
    /\ ctx.sensor_type = "temperature"
    /\ ctx.severity = "LOW"
    /\ TracedKind("heat_stress") = "none"
    /\ ruleResult.rule_name = "sensor_malfunction"

\* the latest recent value of a context, NoneVal for none
Latest(c) ==
    IF c.recent_values = <<>> THEN NoneVal ELSE c.recent_values[Len(c.recent_values)]

\* C18: for a context with sensor_type humidity whose latest recent value is a
\* number, or that has no recent values, the humidity_anomaly rule answers from
\* the latest value alone: above 85 disease_prevention (medium), below 30
\* humidity_management (medium), otherwise (85 and 30 themselves, no values)
\* humidity_monitoring (low); each with the context's model_confidence.
C18_HumidityBranches ==
    (/\ ruleStatus = "returned"
     /\ ctx.sensor_type = "humidity"
     /\ (ctx.recent_values = <<>> \/ IsNum(Latest(ctx))))
    => /\ ruleResult.rule_name = "humidity_anomaly"
       /\ ruleResult.confidence = ctx.model_confidence
       /\ IF ctx.recent_values # <<>> /\ Latest(ctx) > 85
          THEN ruleResult.action = "disease_prevention" /\ ruleResult.urgency = "medium"
          ELSE IF ctx.recent_values # <<>> /\ Latest(ctx) < 30
          THEN ruleResult.action = "humidity_management" /\ ruleResult.urgency = "medium"
          ELSE ruleResult.action = "humidity_monitoring" /\ ruleResult.urgency = "low"

\* a latest humidity of exactly 85 after a higher one: the generic branch
C18_Witness ==
    /\ ruleStatus = "returned"
    /\ ctx.sensor_type = "humidity"
    /\ ctx.recent_values = <<90, 85>>
    /\ ruleResult.action = "humidity_monitoring"
    /\ ruleResult.urgency = "low"

\* the recommendation the sensor_malfunction rule gave in the evaluate call
MalfunctionRec ==
    Only({r \in {RuleLoop(RuleRegistry, 1, ctx).recs[i] :
                    i \in 1..Len(RuleLoop(RuleRegistry, 1, ctx).recs)} :
            r.rule_name = "sensor_malfunction"})

\* the physical range the claim gives a sensor_type
PhysicalRange(sensor_type) ==
    CASE sensor_type \in {"moisture", "humidity"} -> 0..100
      [] sensor_type = "temperature" -> -20..60
      [] OTHER -> Int

\* C19: on a context whose last two recent values are numbers (or that has
\* fewer than two), the sensor_malfunction rule fires exactly when there are
\* at least 2 recent values and the latest is outside the physical range of
\* its sensor or differs from the previous one by more than 50; when it fires
\* it gives sensor_check, urgency high, confidence 0.8.
C19_SensorMalfunction ==
    LET rv == ctx.recent_values
        n == Len(rv)
    IN (ruleStatus = "returned" /\ (n >= 2 => (IsNum(rv[n]) /\ IsNum(rv[n - 1]))))
       => /\ (TracedKind("sensor_malfunction") = "rec")
             <=> (/\ n >= 2
                  /\ \/ rv[n] \notin PhysicalRange(ctx.sensor_type)
                     \/ Abs(rv[n] - rv[n - 1]) > 50)
          /\ TracedKind("sensor_malfunction") \in {"rec", "none"}
          /\ TracedKind("sensor_malfunction") = "rec"
                => /\ MalfunctionRec.action = "sensor_check"
                   /\ MalfunctionRec.urgency = "high"
                   /\ MalfunctionRec.confidence = 80

\* a moisture reading of exactly 100 after 30: the rule fires for the change
\* of 70, not for the range
C19_Witness ==
    /\ ruleStatus = "returned"
    /\ ctx.sensor_type = "moisture"
    /\ ctx.recent_values = <<30, 100>>
    /\ ctx.model_confidence = 30
    /\ TracedKind("sensor_malfunction") = "rec"
    /\ MalfunctionRec.confidence = 80

\* C20: for a context whose numeric model_confidence lies in [0.4, 0.6], ends
\* included, and for which no rule of priority above 3 returned a
\* recommendation, evaluate returns manual_inspection, urgency low, confidence
\* model_confidence; for a numeric model_confidence outside [0.4, 0.6] the
\* low_confidence rule returns nothing.
C20_LowConfidence ==
    (ruleStatus = "returned" /\ IsNum(ctx.model_confidence))
    => IF 40 <= ctx.model_confidence /\ ctx.model_confidence <= 60
       THEN TraceKinds(ruleTrace, "rec") \subseteq {"low_confidence"}
            => /\ ruleResult.rule_name = "low_confidence"
               /\ ruleResult.rule_priority = 3
               /\ ruleResult.action = "manual_inspection"
               /\ ruleResult.urgency = "low"
               /\ ruleResult.confidence = ctx.model_confidence
       ELSE TracedKind("low_confidence") = "none"

\* confidence exactly 0.6 and no other rule applying
C20_Witness ==
    /\ ruleStatus = "returned"
    /\ ctx.model_confidence = 60
    /\ TraceKinds(ruleTrace, "rec") = {"low_confidence"}
    /\ ruleResult.action = "manual_inspection"

-----------------------------------------------------------------------------
(* evaluate_multiple_anomalies                                             *)

\* longest list of contexts handed to evaluate_multiple_anomalies
MaxCtxs == 2

PlotIds == {1, 2}

MultiContexts ==
    [severity : {"HIGH", "CRITICAL"}, sensor_type : {"moisture", "temperature"},
     model_confidence : {NoneVal, 85, 90},
     recent_values : {<<>>, <<100, 90, 85>>}, plot_id : PlotIds]

SeverityScore(severity) ==
    CASE severity = "CRITICAL" -> 4
      [] severity = "HIGH" -> 3
      [] severity = "MEDIUM" -> 2
      [] severity = "LOW" -> 1
      [] OTHER -> 0

\* max(contexts, key=_severity_score): the first context of maximal score
RECURSIVE MaxBySeverity(_)
MaxBySeverity(cs) ==
    IF Len(cs) = 1 THEN cs[1]
    ELSE LET rest == MaxBySeverity(Tail(cs))
         IN IF SeverityScore(rest.severity) > SeverityScore(cs[1].severity)
            THEN rest ELSE cs[1]

\* sum(c.model_confidence for c in contexts), over numbers
RECURSIVE SumConfidence(_)
SumConfidence(cs) ==
    IF cs = <<>> THEN 0 ELSE cs[1].model_confidence + SumConfidence(Tail(cs))

\* the single-context shortcut dropped
EvaluateMultipleNoShortcut(cs) ==
    IF \E i \in DOMAIN cs : ~IsNum(cs[i].model_confidence) THEN Raised
    ELSE IF Len(cs) = 0 THEN Raised
    ELSE Match([action |-> "comprehensive_inspection",
                urgency |-> "high",
                confidence |-> [sum |-> SumConfidence(cs), count |-> Len(cs)],
                rule_name |-> "multiple_anomaly",
                rule_priority |-> 10])

\* RuleEngine.evaluate_multiple_anomalies; the mean is kept as sum / count
EvaluateMultipleAnomalies(cs) ==
    IF Len(cs) = 1 THEN Match(Evaluate(cs[1]))
    ELSE IF \E i \in DOMAIN cs : ~IsNum(cs[i].model_confidence)
         THEN Raised                                     \* 0 + None
    ELSE IF Len(cs) = 0 THEN Raised                      \* 0 / 0
    ELSE Match([action |-> "comprehensive_inspection",
                description |-> "Multiple anomalies detected - comprehensive plot inspection required",
                urgency |-> "high",
                confidence |-> [sum |-> SumConfidence(cs), count |-> Len(cs)],
                reasoning |-> [text |-> "Multiple sensor anomalies detected",
                               sensors |-> {cs[i].sensor_type : i \in DOMAIN cs}],
                rule_name |-> "multiple_anomaly",
                rule_priority |-> 10,
                details |-> [affected_sensors |-> [i \in DOMAIN cs |-> cs[i].sensor_type],
                             max_severity |-> MaxBySeverity(cs).severity,
                             anomaly_count |-> Len(cs),
                             recommended_actions |-> "comprehensive_inspection_steps"]])

MultiInit ==
    /\ ctxs \in SeqsUpTo(MultiContexts, MaxCtxs)
    /\ multiResult = NoResult
    /\ readings = <<>>
    /\ OrchRest
    /\ RuleRest
    /\ MLRest
    /\ LabelRest
    /\ DetectRest
    /\ MoreRest

MultiCall ==
    /\ multiResult = NoResult
    /\ multiResult' = EvaluateMultipleAnomalies(ctxs)
    /\ UNCHANGED ctxs
    /\ UNCHANGED <<ruleVars, orchVars, mlVars, labelVars, detectVars, moreVars>>

SpecMulti == MultiInit /\ [][MultiCall]_vars

SamePlot(cs) == \A i, j \in DOMAIN cs : cs[i].plot_id = cs[j].plot_id

\* C15: evaluate_multiple_anomalies on two or more contexts of one plot (with
\* numeric confidences) returns comprehensive_inspection, urgency high,
\* rule_name multiple_anomaly, rule_priority 10, with the arithmetic mean of
\* the contexts' model_confidence as confidence, whatever evaluate returns for
\* each context; on a single context it returns what evaluate returns for it.
C15_MultipleAnomalies ==
    (/\ multiResult # NoResult
     /\ \A i \in DOMAIN ctxs : IsNum(ctxs[i].model_confidence))
    => /\ (Len(ctxs) >= 2 /\ SamePlot(ctxs))
            => /\ multiResult.kind = "rec"
               /\ multiResult.rec.action = "comprehensive_inspection"
               /\ multiResult.rec.urgency = "high"
               /\ multiResult.rec.rule_name = "multiple_anomaly"
               /\ multiResult.rec.rule_priority = 10
               /\ multiResult.rec.confidence.count = Len(ctxs)
               /\ multiResult.rec.confidence.sum = SumConfidence(ctxs)
       /\ Len(ctxs) = 1
            => /\ multiResult.kind = "rec"
               /\ multiResult.rec = Evaluate(ctxs[1])
               /\ multiResult.rec.rule_name # "multiple_anomaly"

\* the scenario of the tests: moisture HIGH 0.85 and temperature CRITICAL 0.90
\* of one plot give confidence 1.75 / 2
C15_Witness ==
    /\ multiResult # NoResult
    /\ Len(ctxs) = 2
    /\ SamePlot(ctxs)
    /\ ctxs[1].sensor_type = "moisture" /\ ctxs[1].severity = "HIGH"
    /\ ctxs[1].model_confidence = 85
    /\ ctxs[2].sensor_type = "temperature" /\ ctxs[2].severity = "CRITICAL"
    /\ ctxs[2].model_confidence = 90
    /\ Evaluate(ctxs[1]).rule_name = "irrigation_failure"
    /\ multiResult.rec.confidence = [sum |-> 175, count |-> 2]
    /\ multiResult.rec.rule_name = "multiple_anomaly"

-----------------------------------------------------------------------------
(* Detection endpoints (ml_module/views.py) and AnomalyDetectionService    *)

\* most SensorReading rows of the plot
MaxReadings == 12

\* most AnomalyEvent rows the detection endpoints create in a behaviour
MaxEvents == 3

\* SensorDataPreprocessor(window_size=10)
WindowSize == 10

\* [:50], count=50
ReadingsLimit == 50

\* len(values) < 10
MinDetectValues == 10

DetectSensorTypes == {"moisture", "temperature"}

\* a SensorReading row; rows are numbered in timestamp order
SensorRow(i, sensor_type, value) ==
    [id |-> i, timestamp |-> i, sensor_type |-> sensor_type, value |-> value]

\* len rows of value a before position p and value b from position p on
StepSeries(len, p, sensor_type, a, b) ==
    [i \in 1..len |-> SensorRow(i, sensor_type, IF i < p THEN a ELSE b)]

\* a flat series, a step after the oldest row, a step after WindowSize rows
StepPositions == {1, 2, WindowSize + 1}

ReadingSeries ==
    {StepSeries(len, p, st, v[1], v[2]) :
        len \in (WindowSize - 2)..MaxReadings, p \in StepPositions,
        st \in DetectSensorTypes, v \in {<<50, 53>>, <<53, 50>>}}

Reverse(sq) == [i \in 1..Len(sq) |-> sq[Len(sq) + 1 - i]]

FirstN(sq, n) == IF Len(sq) <= n THEN sq ELSE SubSeq(sq, 1, n)

RECURSIVE FilterType(_, _)
FilterType(rows, sensor_type) ==
    IF rows = <<>> THEN <<>>
    ELSE IF Head(rows).sensor_type = sensor_type
         THEN <<Head(rows)>> \o FilterType(Tail(rows), sensor_type)
         ELSE FilterType(Tail(rows), sensor_type)

\* SensorReading.objects.filter(plot, sensor_type).order_by('-timestamp')[:50]
ReadingsList(rows, sensor_type) ==
    FirstN(Reverse(FilterType(rows, sensor_type)), ReadingsLimit)

\* get_recent_readings(plot_id, sensor_type, count): the count latest values,
\* oldest first
GetRecentReadings(rows, sensor_type, count) ==
    LET mine == FilterType(rows, sensor_type)
    IN [i \in 1..Len(LastN(mine, count)) |-> LastN(mine, count)[i].value]

\* the sliding windows of size w, stride 1, in the order of the input
Windows(sq, w) == [i \in 1..(Len(sq) - w + 1) |-> SubSeq(sq, i, i + w - 1)]

\* the feature row of one window: its trend, last minus first
WindowFeatures(window) == window[Len(window)] - window[1]

InsufficientDataError == [type |-> "ValueError", message |-> "insufficient data"]

\* SensorDataPreprocessor.prepare_for_model(values, use_features=True)
PrepareForModel(values, w) ==
    IF Len(values) < w THEN Err(InsufficientDataError)
    ELSE Ok([i \in 1..(Len(values) - w + 1) |-> WindowFeatures(Windows(values, w)[i])])

\* a test that refuses exactly MinDetectValues values
EnoughValuesStrict(values) == Len(values) > MinDetectValues

\* not (len(values) < 10)
EnoughValues(values) == Len(values) >= MinDetectValues

\* severity_map.get(anomaly['severity'], 'medium')
SeverityMap(severity) ==
    CASE severity = "NORMAL" -> "low"
      [] severity = "MINOR" -> "low"
      [] severity = "WARNING" -> "medium"
      [] severity = "CRITICAL" -> "high"
      [] OTHER -> "medium"

\* the keywords of f'{sensor_type}_anomaly'
AnomalyTypeLabel(sensor_type) ==
    CASE sensor_type = "moisture" -> {"moisture"}
      [] sensor_type = "temperature" -> {"temperature", "temp"}
      [] sensor_type = "humidity" -> {"humidity"}

RECURSIVE SelectAnomalies(_)
SelectAnomalies(results) ==
    IF results = <<>> THEN <<>>
    ELSE IF Head(results).is_anomaly
         THEN <<Head(results)>> \o SelectAnomalies(Tail(results))
         ELSE SelectAnomalies(Tail(results))

\* the reading the loop picks for an anomaly (window_index counts from 0)
PickReading(readings_list, window_index) ==
    IF window_index < Len(readings_list) THEN readings_list[window_index + 1]
    ELSE readings_list[1]

\* AnomalyEvent.objects.create(...) for one anomaly, with what the post_save
\* handler's process_anomaly makes of the new event
NewEvent(anomaly, readings_list, sensor_type, now) ==
    LET ev == [sensor_reading |-> PickReading(readings_list, anomaly.index).id,
               anomaly_type |-> AnomalyTypeLabel(sensor_type),
               severity |-> SeverityMap(anomaly.severity),
               model_confidence |-> anomaly.confidence,
               timestamp |-> now]
    IN Only({ev @@ [window_index |-> anomaly.index,
                    context |-> BuildContext(ev, readings),
                    recommended |-> IF result.raised THEN "<none>" ELSE result.action] :
               result \in {ProcessAnomaly(ev, readings)}})

\* the events the loop over the anomalies creates
CreatedEvents(results, readings_list, sensor_type, now) ==
    LET anomalies_ == SelectAnomalies(results)
    IN [i \in 1..Len(anomalies_) |-> NewEvent(anomalies_[i], readings_list, sensor_type, now)]

\* the reading ids behind each window handed to the detector
WindowReadings(readings_list) ==
    Windows([i \in 1..Len(readings_list) |-> readings_list[i].id], WindowSize)

DetectResponse(call, status, error, trained, n_values, results, windows, created) ==
    [call |-> call, status |-> status, error |-> error, trained |-> trained,
     n_values |-> n_values, results |-> results, windows |-> windows,
     created |-> created]

\* MLViewSet.detect for a valid request: the response and the events created
Detect(d, rows, sensor_type, plot_exists, now) ==
    IF ~d.is_trained
    THEN DetectResponse("detect", 400, "not trained", FALSE, 0, <<>>, <<>>, <<>>)
    ELSE IF ~plot_exists
    THEN DetectResponse("detect", 400, "no plot", TRUE, 0, <<>>, <<>>, <<>>)
    ELSE LET readings_list == ReadingsList(rows, sensor_type)
             values == [i \in 1..Len(readings_list) |-> readings_list[i].value]
         IN IF ~EnoughValues(values)
            THEN DetectResponse("detect", 400, "not enough data", TRUE, Len(values),
                                <<>>, <<>>, <<>>)
            ELSE LET processed_data == PrepareForModel(values, WindowSize)
                 IN IF ~processed_data.ok
                    THEN DetectResponse("detect", 500, "exception", TRUE, Len(values),
                                        <<>>, <<>>, <<>>)
                    ELSE LET results == DetectWithConfidence(d, processed_data.value)
                         IN IF ~results.ok
                            THEN DetectResponse("detect", 500, "exception", TRUE,
                                                Len(values), <<>>, <<>>, <<>>)
                            ELSE DetectResponse("detect", 200, "none", TRUE, Len(values),
                                    results.value, WindowReadings(readings_list),
                                    CreatedEvents(results.value, readings_list,
                                                  sensor_type, now))

\* the per-sensor entry of MLViewSet.batch_detect
BatchDetectEntry(d, rows, sensor_type, now) ==
    IF ~d.is_trained
    THEN DetectResponse("batch", 200, "skipped: model not trained", FALSE, 0,
                        <<>>, <<>>, <<>>)
    ELSE LET readings_list == ReadingsList(rows, sensor_type)
             values == [i \in 1..Len(readings_list) |-> readings_list[i].value]
         IN IF Len(values) < MinDetectValues
            THEN DetectResponse("batch", 200, "skipped: insufficient data", TRUE,
                                Len(values), <<>>, <<>>, <<>>)
            ELSE LET processed_data == PrepareForModel(values, WindowSize)
                 IN IF ~processed_data.ok
                    THEN DetectResponse("batch", 200, "error", TRUE, Len(values),
                                        <<>>, <<>>, <<>>)
                    ELSE LET results == DetectWithConfidence(d, processed_data.value)
                         IN IF ~results.ok
                            THEN DetectResponse("batch", 200, "error", TRUE,
                                                Len(values), <<>>, <<>>, <<>>)
                            ELSE DetectResponse("batch", 200, "none", TRUE, Len(values),
                                    results.value, WindowReadings(readings_list),
                                    CreatedEvents(results.value, readings_list,
                                                  sensor_type, now))

\* AnomalyDetectionService.detect_anomalies: the list it returns, or the raise
ServiceDetectAnomalies(d, rows, sensor_type) ==
    LET values == GetRecentReadings(rows, sensor_type, ReadingsLimit)
    IN IF Len(values) < MinDetectValues
       THEN DetectResponse("service", 0, "not enough data", d.is_trained, Len(values),
                           <<>>, <<>>, <<>>)
       ELSE LET processed_data == PrepareForModel(values, WindowSize)
            IN IF ~processed_data.ok
               THEN DetectResponse("service", 0, "raise", d.is_trained, Len(values),
                                   <<>>, <<>>, <<>>)
               ELSE LET results == DetectWithConfidence(d, processed_data.value)
                    IN IF ~results.ok
                       THEN DetectResponse("service", 0, "raise", d.is_trained,
                                           Len(values), <<>>, <<>>, <<>>)
                       ELSE DetectResponse("service", 0, "none", TRUE, Len(values),
                                           results.value, <<>>, <<>>)

\* the sensor type the plot has readings of
StoredTypes == {sreadings[i].sensor_type : i \in DOMAIN sreadings}

\* POST /api/ml/detect/
ViewDetect(plot_exists) ==
    /\ \E sensor_type \in StoredTypes :
         \E resp \in {Detect(detectors[1], sreadings, sensor_type, plot_exists, clock)} :
            /\ Len(events) + Len(resp.created) <= MaxEvents
            /\ detResp' = resp
            /\ events' = events \o resp.created
    /\ UNCHANGED <<sreadings, ruleVars, orchVars, mlVars, labelVars, multiVars, moreVars>>

\* POST /api/ml/batch-detect/ for the plot and the sensor type it has readings of
ViewBatchDetect ==
    /\ \E sensor_type \in StoredTypes :
         \E resp \in {BatchDetectEntry(detectors[1], sreadings, sensor_type, clock)} :
            /\ Len(events) + Len(resp.created) <= MaxEvents
            /\ detResp' = resp
            /\ events' = events \o resp.created
    /\ UNCHANGED <<sreadings, ruleVars, orchVars, mlVars, labelVars, multiVars, moreVars>>

\* AnomalyDetectionService.detect_anomalies(plot_id, sensor_type)
ServiceDetect ==
    /\ \E sensor_type \in StoredTypes :
         detResp' = ServiceDetectAnomalies(detectors[1], sreadings, sensor_type)
    /\ UNCHANGED <<sreadings, events, ruleVars, orchVars, mlVars, labelVars, multiVars, moreVars>>

\* training of the sensor type's detector
DetectTrain(n) == MLTrain(1, n)

DetectInit ==
    /\ sreadings \in ReadingSeries
    /\ events = <<>>
    /\ detResp = NoResponse
    /\ \E c \in DetectorConfigs :
          detectors = <<NewDetector(c.contamination, c.random_state), NoDetector>>
    /\ files = [path \in Paths |-> NoFile]
    /\ clock = 0
    /\ everTrained = <<FALSE, FALSE>>
    /\ savedAs = [path \in Paths |-> NoDetector]
    /\ mlResult = NoMLResult
    /\ readings \in ReadingSets
    /\ OrchRest
    /\ RuleRest
    /\ LabelRest
    /\ MultiRest
    /\ MoreRest

DetectNext ==
    \/ \E n \in TrainSizes : DetectTrain(n)
    \/ \E plot_exists \in BOOLEAN : ViewDetect(plot_exists)
    \/ ViewBatchDetect
    \/ ServiceDetect

SpecDetect == DetectInit /\ [][DetectNext]_vars

\* the error with which each entry point refuses too few values
InsufficientErrors == {"not enough data", "skipped: insufficient data"}

\* C11: with a trained detector, detection over exactly window_size (10)
\* values succeeds with one window, and detection over 9 values is refused as
\* insufficient data, with nothing scored and no AnomalyEvent created.
C11_DetectionBoundary ==
    [][(/\ detResp'.call \in {"detect", "batch", "service"}
        /\ detResp'.trained
        /\ detResp'.error # "no plot")
       => /\ detResp'.n_values = WindowSize
               => /\ detResp'.error = "none"
                  /\ Len(detResp'.results) = 1
          /\ detResp'.n_values = WindowSize - 1
               => /\ detResp'.error \in InsufficientErrors
                  /\ detResp'.results = <<>>
                  /\ detResp'.created = <<>>
                  /\ events' = events]_vars

\* the detect endpoint refused 9 values of a trained sensor type
C11_Witness ==
    /\ detResp.call = "detect"
    /\ detResp.trained
    /\ detResp.n_values = WindowSize - 1
    /\ detResp.error = "not enough data"
    /\ detResp.status = 400
    /\ events = <<>>

SeverityVocabulary == {"NORMAL", "LOW", "MEDIUM", "HIGH", "CRITICAL"}

\* C12: the severity of every detection result, of every AnomalyEvent the
\* detect endpoints create and of every context process_anomaly builds from
\* such an event is one of NORMAL, LOW, MEDIUM, HIGH, CRITICAL.  Violated by
\* the first event created: the endpoints store 'high' or 'medium'.
C12_SeverityVocabulary ==
    /\ detResp.call # "none"
         => \A i \in DOMAIN detResp.results :
               detResp.results[i].severity \in SeverityVocabulary
    /\ \A i \in DOMAIN events :
          /\ events[i].severity \in SeverityVocabulary
          /\ events[i].context.severity \in SeverityVocabulary

\* the largest element of a sequence of reading ids: the latest reading
LatestOf(window) ==
    CHOOSE x \in {window[j] : j \in DOMAIN window} :
        \A y \in {window[j] : j \in DOMAIN window} : y <= x

\* C13: the windows a successful detect hands to the detector run oldest to
\* newest with stride 1, and the event created for anomalous window i is
\* attached to the chronologically last reading of window i.  Violated by any
\* successful detect: the readings are taken newest first.
C13_WindowsFollowReadings ==
    (detResp.call = "detect" /\ detResp.error = "none")
    => /\ \A w \in DOMAIN detResp.windows :
             \A j \in 1..(WindowSize - 1) :
                detResp.windows[w][j] < detResp.windows[w][j + 1]
       /\ \A w \in 1..(Len(detResp.windows) - 1) :
             detResp.windows[w + 1][1] = detResp.windows[w][1] + 1
       /\ \A i \in DOMAIN detResp.created :
             detResp.created[i].sensor_reading
                = LatestOf(detResp.windows[detResp.created[i].window_index + 1])

-----------------------------------------------------------------------------
(* Scoring specification: the result loop of detect_with_confidence on     *)
(* every pair of rows                                                      *)

\* scores are the multiples of 0.05 from -0.05 * MaxScoreStep to 0.05 * MaxScoreStep
MaxScoreStep == 12

Scores == {5 * k : k \in (-MaxScoreStep)..MaxScoreStep}

\* what predict and get_anomaly_scores hand to the loop for one row
ScoredRows == [prediction : {-1, 1}, score : Scores]

ScoreInit ==
    /\ row \in [1..2 -> ScoredRows]
    /\ rowResult = NoRowResult
    /\ ExplRest
    /\ RegenRest
    /\ HashRest
    /\ ViewRest
    /\ readings = <<>>
    /\ OrchRest
    /\ RuleRest
    /\ MLRest
    /\ LabelRest
    /\ MultiRest
    /\ DetectRest

\* the loop of detect_with_confidence over the two rows
ScoreRows ==
    /\ rowResult = NoRowResult
    /\ rowResult' = [i \in 1..2 |-> DetectionResult(i - 1, row[i].prediction, row[i].score)]
    /\ UNCHANGED row
    /\ UNCHANGED <<ruleVars, orchVars, mlVars, labelVars, multiVars, detectVars, explVars,
                   regenVars, hashVars, viewVars>>

SpecScore == ScoreInit /\ [][ScoreRows]_vars

\* the severity the claim gives a score and an anomaly flag
ClaimedSeverity(score, is_anomaly) ==
    CASE ~is_anomaly -> "NORMAL"
      [] is_anomaly /\ score < -40 -> "CRITICAL"
      [] is_anomaly /\ -40 <= score /\ score < -30 -> "HIGH"
      [] is_anomaly /\ -30 <= score /\ score < -20 -> "MEDIUM"
      [] is_anomaly /\ score >= -20 -> "LOW"

\* C21: each result's severity follows from its score and anomaly flag alone:
\* NORMAL when not anomalous, else CRITICAL below -0.4, HIGH in [-0.4, -0.3),
\* MEDIUM in [-0.3, -0.2), LOW from -0.2 up; of two anomalous rows the one
\* with the lower score never has the lower severity.
C21_SeverityFromScore ==
    rowResult # NoRowResult
    => /\ \A i \in 1..2 :
             /\ rowResult[i].is_anomaly = (row[i].prediction = -1)
             /\ rowResult[i].severity
                   = ClaimedSeverity(row[i].score, rowResult[i].is_anomaly)
       /\ \A i, j \in 1..2 :
             (/\ rowResult[i].is_anomaly
              /\ rowResult[j].is_anomaly
              /\ row[i].score <= row[j].score)
             => SeverityScore(rowResult[i].severity) >= SeverityScore(rowResult[j].severity)

\* anomalous rows at -0.4 exactly (HIGH) and at -0.45 (CRITICAL)
C21_Witness ==
    /\ rowResult # NoRowResult
    /\ row[1] = [prediction |-> -1, score |-> -40]
    /\ row[2] = [prediction |-> -1, score |-> -45]
    /\ rowResult[1].severity = "HIGH"
    /\ rowResult[2].severity = "CRITICAL"

\* clamp(x, 0, 1) in hundredths
Clamp01(x) == IF x < 0 THEN 0 ELSE IF x > 100 THEN 100 ELSE x

\* C22: each result's confidence lies in [0, 1]: |score| / 0.5 clamped to
\* [0, 1] for an anomalous row, score / 0.5 clamped to [0, 1] otherwise.
C22_ConfidenceClamped ==
    rowResult # NoRowResult
    => \A i \in 1..2 :
          /\ rowResult[i].confidence >= 0
          /\ rowResult[i].confidence <= 100
          /\ rowResult[i].confidence
                = IF rowResult[i].is_anomaly
                  THEN Clamp01(2 * Abs(row[i].score))
                  ELSE Clamp01(2 * row[i].score)

\* an anomalous row at -0.6 (clamped to 1) and a normal row at -0.1 (0)
C22_Witness ==
    /\ rowResult # NoRowResult
    /\ row[1] = [prediction |-> -1, score |-> -60]
    /\ row[2] = [prediction |-> 1, score |-> -10]
    /\ rowResult[1].confidence = 100
    /\ rowResult[2].confidence = 0

-----------------------------------------------------------------------------
(* Explanation specification: generate_explanation on bounded inputs       *)

Urgencies == {"high", "medium", "low", "critical", "HIGH"}

ExplainedAnomalies ==
    [timestamp : {1}, anomaly_type : {{"moisture"}, {}},
     severity : {"HIGH", "medium"}, model_confidence : {85, NoneVal}]

ExplainedRecommendations ==
    [action : {"irrigation_check"}, urgency : Urgencies,
     description : {"Inspect irrigation system and verify water supply", ""},
     confidence : {30, 60, 80, NoneVal},
     reasoning : {[text |-> "Abnormal moisture levels detected", num |-> 0]},
     details : {NoDetails, [drop_percentage |-> 1500]}]

ExplainInit ==
    /\ explIn \in [anomaly : ExplainedAnomalies, recommendation : ExplainedRecommendations]
    /\ explOut = NoExplOut
    /\ ScoreRest
    /\ RegenRest
    /\ HashRest
    /\ ViewRest
    /\ readings = <<>>
    /\ OrchRest
    /\ RuleRest
    /\ MLRest
    /\ LabelRest
    /\ MultiRest
    /\ DetectRest

\* ExplanationGenerator.generate_explanation(anomaly_event, recommendation)
ExplainCall ==
    /\ explOut = NoExplOut
    /\ explOut' = IF ExplanationRaises(explIn.anomaly, explIn.recommendation)
                  THEN [raised |-> TRUE, parts |-> <<>>]
                  ELSE [raised |-> FALSE,
                        parts |-> GenerateExplanation(explIn.anomaly,
                                                      explIn.recommendation)]
    /\ UNCHANGED explIn
    /\ UNCHANGED <<ruleVars, orchVars, mlVars, labelVars, multiVars, detectVars, scoreVars,
                   regenVars, hashVars, viewVars>>

SpecExplain == ExplainInit /\ [][ExplainCall]_vars

\* the prefix the claim gives an urgency
ClaimedPrefix(urgency) ==
    CASE urgency = "high" -> "Immediate action required: "
      [] urgency = "medium" -> "Recommended action: "
      [] OTHER -> "Suggested action: "

\* C25: in a generated explanation the action sentence is the description of
\* the recommendation behind the prefix its urgency alone decides (high,
\* medium, any other), and it is the fourth part: after time, detection and
\* context, before the confidence band.
C25_ActionSentence ==
    explOut.parts # <<>>
    => /\ [i \in 1..Len(explOut.parts) |-> explOut.parts[i].part]
             = <<"time", "detection", "context", "action", "confidence">>
       /\ explOut.parts[4].value.prefix = ClaimedPrefix(explIn.recommendation.urgency)
       /\ explOut.parts[4].value.description = explIn.recommendation.description

\* an urgency outside high, medium and low
C25_Witness ==
    /\ explOut.parts # <<>>
    /\ explIn.recommendation.urgency = "critical"
    /\ explOut.parts[4].value.prefix = "Suggested action: "
    /\ explOut.parts[4].value.description
          = "Inspect irrigation system and verify water supply"

-----------------------------------------------------------------------------
(* The post_save handler                                                   *)

-----------------------------------------------------------------------------
(* AgentRecommendationViewSet.regenerate (ai_agent/views.py)                *)

\* lines 82-86: get_object on a queryset with select_related('anomaly_event'),
\* which hands the anomaly instance over with the recommendation in its
\* one-to-one cache, then recommendation.delete(), which removes the row and
\* leaves the instances as they are
RegenerateDelete ==
    /\ regen.pc = "idle"
    /\ \E r \in recs :
          /\ regen' = [pc |-> "deleted", anomaly |-> r.anomaly_event,
                       old |-> r.id, cache |-> r.id]
          /\ recs' = recs \ {r}
    /\ lastCall' = NoCall
    /\ batchStats' = NoStats
    /\ UNCHANGED <<readings, anomalies, nextRecId, held, sig, batch>>
    /\ UNCHANGED <<ruleVars, mlVars, labelVars, multiVars, detectVars, scoreVars, explVars,
                   hashVars, viewVars>>

\* lines 89-99: create_recommendation_for_anomaly on that instance and the
\* response, 201 when the call returned an object
RegenerateCreate(fault, dbFault) ==
    /\ regen.pc = "deleted"
    /\ \E a \in {regen.anomaly} :
       \E p1 \in {CheckAndProcess(a, anomalies[a], regen.cache, fault)} :
          IF p1.done
          THEN /\ lastCall' = Returned("regenerate", a, p1.ret,
                                       IF p1.ret = RetNone THEN fault ELSE "none",
                                       regen.old, FALSE)
               /\ UNCHANGED <<recs, nextRecId>>
          ELSE \E p2 \in {Persist(a, p1.result, dbFault)} :
               /\ recs' = p2.recs
               /\ nextRecId' = p2.nextRecId
               /\ lastCall' = Returned("regenerate", a, p2.ret,
                                       PersistFault(a, dbFault), regen.old, p2.created)
    /\ regen' = [pc |-> "idle"]
    /\ batchStats' = NoStats
    /\ UNCHANGED <<readings, anomalies, held, sig, batch>>
    /\ UNCHANGED <<ruleVars, mlVars, labelVars, multiVars, detectVars, scoreVars, explVars,
                   hashVars, viewVars>>

RegenNext ==
    \/ \E kind \in AnomalyKinds, ts \in Timestamps,
          fault \in ProcessFaults \cup {"crash"} : CreateAnomaly(kind, ts, fault)
    \/ \E dbFault \in BOOLEAN : SignalPersist(dbFault)
    \/ RegenerateDelete
    \/ \E fault \in ProcessFaults, dbFault \in BOOLEAN : RegenerateCreate(fault, dbFault)

SpecRegen == Init /\ [][RegenNext]_vars

\* C27: when a regenerate request answers 201, the anomaly of the
\* recommendation has exactly one persisted recommendation, it is the one the
\* request returned, it is not the old one, and the old one is gone.
C27_RegenerateReplaces ==
    (/\ lastCall # NoCall
     /\ lastCall.caller = "regenerate"
     /\ lastCall.ret # RetNone) =>
        /\ Cardinality(RecsOf(lastCall.anomaly)) = 1
        /\ RecIdOf(lastCall.anomaly) = lastCall.ret
        /\ lastCall.ret # lastCall.existed
        /\ \A r \in recs : r.id # lastCall.existed

-----------------------------------------------------------------------------
(* Batch passes that run alone: nothing else writes while a pass is under   *)
(* way                                                                     *)

QuietCreateAnomaly(kind, ts, fault) ==
    /\ batch.pc = "idle"
    /\ CreateAnomaly(kind, ts, fault)

QuietSignalPersist(dbFault) ==
    /\ batch.pc = "idle"
    /\ SignalPersist(dbFault)

QuietNext ==
    \/ \E kind \in AnomalyKinds, ts \in Timestamps,
          fault \in ProcessFaults \cup {"crash"} : QuietCreateAnomaly(kind, ts, fault)
    \/ \E dbFault \in BOOLEAN : QuietSignalPersist(dbFault)
    \/ BatchCount
    \/ BatchFetch
    \/ \E fault \in ProcessFaults : BatchItemCheck(fault)
    \/ \E dbFault \in BOOLEAN : BatchItemPersist(dbFault)
    \/ BatchReturn

SpecQuiet == Init /\ [][QuietNext]_vars

\* the anomalies the pass found unprocessed
Snapshot == {batchStats.snapshot[i] : i \in 1..Len(batchStats.snapshot)}

\* C28: the statistics of a pass that ran with no concurrent writer are
\* consistent: processed + failed is the total of unprocessed anomalies, the
\* error list has one entry per failed anomaly, and processed is the number of
\* anomalies that were unprocessed when the pass began and have a
\* recommendation when it returns.
C28_BatchStatistics ==
    batchStats # NoStats =>
        /\ batchStats.processed + batchStats.failed = batchStats.total_unprocessed
        /\ Len(batchStats.errors) = batchStats.failed
        /\ \A i, j \in 1..Len(batchStats.errors) :
              i # j => batchStats.errors[i] # batchStats.errors[j]
        /\ \A i \in 1..Len(batchStats.errors) :
              /\ batchStats.errors[i] \in Snapshot
              /\ RecIdOf(batchStats.errors[i]) = 0
        /\ batchStats.total_unprocessed = Cardinality(Snapshot)
        /\ \A a \in (1..batchStats.existing) \ Snapshot : RecIdOf(a) # 0
        /\ batchStats.processed = Cardinality({a \in Snapshot : RecIdOf(a) # 0})

\* a pass over two unprocessed anomalies: one gained a recommendation, one failed
C28_Witness ==
    /\ batchStats # NoStats
    /\ batchStats.total_unprocessed = 2
    /\ batchStats.processed = 1
    /\ batchStats.failed = 1
    /\ Len(batchStats.errors) = 1
    /\ Cardinality({a \in Snapshot : RecIdOf(a) # 0}) = 1

-----------------------------------------------------------------------------
(* Evaluations of one list of contexts in several worker processes.  A set  *)
(* of strings is iterated in the order of the strings' hashes, and the hash *)
(* of a string is seeded afresh in every Python process.                    *)

Procs == 1..2

\* the iteration orders two hash seeds give the sensor types
HashOrders ==
    <<<<"moisture", "temperature", "humidity", "unknown">>,
      <<"unknown", "humidity", "temperature", "moisture">>>>

Seeds == DOMAIN HashOrders

InSet(S) == [s \in SensorTypes |-> s \in S]

\* ", ".join(set(sensor_types)) in a process started with the seed
JoinSet(S, seed) ==
    LET in == InSet(S)
        Test(s) == in[s]
    IN SelectSeq(HashOrders[seed], Test)

\* evaluate_multiple_anomalies in a process started with the seed: the
\* reasoning text lists the sensor types in the order the set yields them
EvaluateMultipleInProcess(cs, seed) ==
    Only({IF r.kind = "rec" /\ r.rec.rule_name = "multiple_anomaly"
          THEN [r EXCEPT !.rec.reasoning.sensors = JoinSet(@, seed)]
          ELSE r : r \in {EvaluateMultipleAnomalies(cs)}})

HashInit ==
    /\ ctxs \in SeqsUpTo(MultiContexts, MaxCtxs)
    /\ multiResult = NoResult
    /\ hashSeed \in [Procs -> Seeds]
    /\ evals = [p \in Procs |-> NoResult]
    /\ readings = <<>>
    /\ OrchRest
    /\ RuleRest
    /\ MLRest
    /\ LabelRest
    /\ DetectRest
    /\ ScoreRest
    /\ ExplRest
    /\ RegenRest
    /\ ViewRest

\* worker p evaluates the list
HashEvaluate(p) ==
    /\ evals[p] = NoResult
    /\ evals' = [evals EXCEPT ![p] = EvaluateMultipleInProcess(ctxs, hashSeed[p])]
    /\ UNCHANGED <<ctxs, multiResult, hashSeed>>
    /\ UNCHANGED <<ruleVars, orchVars, mlVars, labelVars, detectVars, scoreVars, explVars,
                   regenVars, viewVars>>

HashNext == \E p \in Procs : HashEvaluate(p)

SpecHash == HashInit /\ [][HashNext]_vars

\* C24: two evaluations of the same list of contexts return recommendations
\* equal in every field, the reasoning text included.
C24_Deterministic ==
    \A p, q \in DOMAIN evals :
        (evals[p] # NoResult /\ evals[q] # NoResult) => evals[p] = evals[q]

-----------------------------------------------------------------------------
(* ml_module/views.py: the detector cache and the train, detect,            *)
(* batch-detect and status endpoints, for the sensor type moisture.  The    *)
(* detector objects of the process are the slots of detectors.              *)

ViewSensor == "moisture"

\* get_model_path(sensor_type)
ViewPath == "models/moisture_model.pkl"

DataPoints == 100

TrainMinValues == 10

ThreadIds == 1..2

ViewOps == {"train", "detect", "batch", "status"}

\* readings on both sides of the two thresholds of a train request
TrainLengths ==
    {TrainMinValues - 1, TrainMinValues,
     WindowSize + MinTrainingSamples - 2, WindowSize + MinTrainingSamples - 1}

TrainSeries ==
    {StepSeries(len, p, ViewSensor, 50, 53) : len \in TrainLengths, p \in {1, 2}}

FreeSlot == IF detectors[1] = NoDetector THEN 1 ELSE 2

\* lines 71-85: the detector loaded from the file when there is one, a new
\* IsolationForestDetector(contamination=0.1) otherwise
LoadOrCreate(file) ==
    Only({IF l.ok THEN l.value ELSE NewDetector(DefaultContamination, DefaultRandomState) :
             l \in {LoadModel(file)}})

ViewResponse(call, t, det, status, error, d, saved, n_values, n_windows) ==
    [call |-> call, thread |-> t, det |-> det, status |-> status, error |-> error,
     trained |-> d.is_trained, training_data_size |-> d.training_data_size,
     training_date |-> d.training_date, saved_to_disk |-> saved,
     n_values |-> n_values, n_windows |-> n_windows]

\* a train request that leaves the file alone
TrainRequestNoSave(d, file, rows, now) ==
    LET values == GetRecentReadings(rows, ViewSensor, DataPoints)
        training_data == PrepareForModel(values, WindowSize)
        n == IF training_data.ok THEN Len(training_data.value) ELSE 0
        t == Train(d, n, now)
    IN IF Len(values) < TrainMinValues
       THEN [detector |-> d, file |-> file, status |-> 400, error |-> "not enough data",
             n_values |-> Len(values), n_windows |-> 0]
       ELSE IF ~training_data.ok \/ ~t.ret.ok
       THEN [detector |-> d, file |-> file, status |-> 500, error |-> "exception",
             n_values |-> Len(values), n_windows |-> n]
       ELSE [detector |-> t.detector, file |-> file, status |-> 200, error |-> "none",
             n_values |-> Len(values), n_windows |-> n]

\* lines 128-181, use_recent_data: the detector and the file after the request,
\* and the response
TrainRequest(d, file, rows, now) ==
    LET values == GetRecentReadings(rows, ViewSensor, DataPoints)
        training_data == PrepareForModel(values, WindowSize)
        n == IF training_data.ok THEN Len(training_data.value) ELSE 0
        t == Train(d, n, now)
        w == SaveModel(t.detector, ViewPath)
    IN IF Len(values) < TrainMinValues
       THEN [detector |-> d, file |-> file, status |-> 400, error |-> "not enough data",
             n_values |-> Len(values), n_windows |-> 0]
       ELSE IF ~training_data.ok \/ ~t.ret.ok
       THEN [detector |-> d, file |-> file, status |-> 500, error |-> "exception",
             n_values |-> Len(values), n_windows |-> n]
       ELSE IF ~w.ok
       THEN [detector |-> t.detector, file |-> file, status |-> 500, error |-> "exception",
             n_values |-> Len(values), n_windows |-> n]
       ELSE [detector |-> t.detector, file |-> w.value, status |-> 200, error |-> "none",
             n_values |-> Len(values), n_windows |-> n]

AllIdle == \A t \in ThreadIds : threads[t] = Idle

ViewsInit ==
    /\ sreadings \in TrainSeries
    /\ events = <<>>
    /\ detResp = NoResponse
    /\ detectors = <<NoDetector, NoDetector>>
    /\ files = [path \in Paths |-> NoFile]
    /\ clock = 0
    /\ everTrained = <<FALSE, FALSE>>
    /\ savedAs = [path \in Paths |-> NoDetector]
    /\ mlResult = NoMLResult
    /\ cacheRef = 0
    /\ threads = [t \in ThreadIds |-> Idle]
    /\ handed = {}
    /\ viewResp = NoViewResp
    /\ readings = <<>>
    /\ OrchRest
    /\ RuleRest
    /\ LabelRest
    /\ MultiRest
    /\ ScoreRest
    /\ ExplRest
    /\ RegenRest
    /\ HashRest

\* a request arrives and its thread is about to call get_or_create_detector
ViewStart(t, op) ==
    /\ threads[t] = Idle
    /\ threads' = [threads EXCEPT ![t] = [pc |-> "check", op |-> op, det |-> 0]]
    /\ UNCHANGED <<cacheRef, handed, viewResp, mlVars, detectVars>>
    /\ UNCHANGED <<ruleVars, orchVars, labelVars, multiVars, scoreVars, explVars,
                   regenVars, hashVars>>

\* the same with train requests serialized by their callers: a train request
\* starts only when no other train request is under way
SerialTrainStart(t, op) ==
    /\ op = "train" => \A u \in ThreadIds : threads[u] # Idle => threads[u].op # "train"
    /\ ViewStart(t, op)

\* the same, one request at a time
SeqViewStart(t, op) ==
    /\ AllIdle
    /\ ViewStart(t, op)

\* lines 67-68: the cache is asked
GetCached(t) ==
    /\ threads[t].pc = "check"
    /\ IF cacheRef # 0
       THEN /\ threads' = [threads EXCEPT ![t].pc = "body", ![t].det = cacheRef]
            /\ handed' = handed \cup {cacheRef}
       ELSE /\ threads' = [threads EXCEPT ![t].pc = "make"]
            /\ UNCHANGED handed
    /\ UNCHANGED <<cacheRef, viewResp, mlVars, detectVars>>
    /\ UNCHANGED <<ruleVars, orchVars, labelVars, multiVars, scoreVars, explVars,
                   regenVars, hashVars>>

\* lines 71-86: the detector is loaded or created, put in the cache and returned
GetLoadOrCreate(t) ==
    /\ threads[t].pc = "make"
    /\ \E slot \in {FreeSlot} :
          /\ detectors' = [detectors EXCEPT ![slot] = LoadOrCreate(files[ViewPath])]
          /\ cacheRef' = slot
          /\ handed' = handed \cup {slot}
          /\ threads' = [threads EXCEPT ![t].pc = "body", ![t].det = slot]
    /\ UNCHANGED <<files, clock, everTrained, savedAs, mlResult, viewResp, detectVars>>
    /\ UNCHANGED <<ruleVars, orchVars, labelVars, multiVars, scoreVars, explVars,
                   regenVars, hashVars>>

\* POST /api/ml/train/ with use_recent_data, after get_or_create_detector
TrainBody(t) ==
    /\ threads[t].pc = "body"
    /\ threads[t].op = "train"
    /\ \E slot \in {threads[t].det} :
       \E r \in {TrainRequest(detectors[slot], files[ViewPath], sreadings, clock)} :
          /\ r.status = 200 => clock < MaxClock
          /\ detectors' = [detectors EXCEPT ![slot] = r.detector]
          /\ files' = [files EXCEPT ![ViewPath] = r.file]
          /\ clock' = IF r.detector # detectors[slot] THEN clock + 1 ELSE clock
          /\ viewResp' = ViewResponse("train", t, slot, r.status, r.error, r.detector,
                                      r.file # NoFile, r.n_values, r.n_windows)
    /\ threads' = [threads EXCEPT ![t] = Idle]
    /\ UNCHANGED <<cacheRef, handed, everTrained, savedAs, mlResult, detectVars>>
    /\ UNCHANGED <<ruleVars, orchVars, labelVars, multiVars, scoreVars, explVars,
                   regenVars, hashVars>>

\* POST /api/ml/detect/, after get_or_create_detector
DetectBody(t, plot_exists) ==
    /\ threads[t].pc = "body"
    /\ threads[t].op = "detect"
    /\ \E slot \in {threads[t].det} :
       \E r \in {Detect(detectors[slot], sreadings, ViewSensor, plot_exists, clock)} :
          /\ Len(events) + Len(r.created) <= MaxEvents
          /\ events' = events \o r.created
          /\ viewResp' = ViewResponse("detect", t, slot, r.status, r.error, detectors[slot],
                                      files[ViewPath] # NoFile, r.n_values, Len(r.results))
    /\ threads' = [threads EXCEPT ![t] = Idle]
    /\ UNCHANGED <<cacheRef, handed, mlVars, sreadings, detResp>>
    /\ UNCHANGED <<ruleVars, orchVars, labelVars, multiVars, scoreVars, explVars,
                   regenVars, hashVars>>

\* POST /api/ml/batch-detect/ for the plot and the sensor type
BatchBody(t) ==
    /\ threads[t].pc = "body"
    /\ threads[t].op = "batch"
    /\ \E slot \in {threads[t].det} :
       \E r \in {BatchDetectEntry(detectors[slot], sreadings, ViewSensor, clock)} :
          /\ Len(events) + Len(r.created) <= MaxEvents
          /\ events' = events \o r.created
          /\ viewResp' = ViewResponse("batch", t, slot, r.status, r.error, detectors[slot],
                                      files[ViewPath] # NoFile, r.n_values, Len(r.results))
    /\ threads' = [threads EXCEPT ![t] = Idle]
    /\ UNCHANGED <<cacheRef, handed, mlVars, sreadings, detResp>>
    /\ UNCHANGED <<ruleVars, orchVars, labelVars, multiVars, scoreVars, explVars,
                   regenVars, hashVars>>

\* GET /api/ml/status/: lines 437-448 for the sensor type
StatusBody(t) ==
    /\ threads[t].pc = "body"
    /\ threads[t].op = "status"
    /\ \E slot \in {threads[t].det} :
          viewResp' = ViewResponse("status", t, slot, 200, "none", detectors[slot],
                                   files[ViewPath] # NoFile, 0, 0)
    /\ threads' = [threads EXCEPT ![t] = Idle]
    /\ UNCHANGED <<cacheRef, handed, mlVars, detectVars>>
    /\ UNCHANGED <<ruleVars, orchVars, labelVars, multiVars, scoreVars, explVars,
                   regenVars, hashVars>>

\* the process is restarted between requests: its memory is gone, the files stay
Restart ==
    /\ AllIdle
    /\ cacheRef # 0
    /\ cacheRef' = 0
    /\ detectors' = <<NoDetector, NoDetector>>
    /\ handed' = {}
    /\ viewResp' = NoViewResp
    /\ UNCHANGED <<threads, files, clock, everTrained, savedAs, mlResult, detectVars>>
    /\ UNCHANGED <<ruleVars, orchVars, labelVars, multiVars, scoreVars, explVars,
                   regenVars, hashVars>>

\* requests one after another
ViewsNext ==
    \/ \E t \in ThreadIds, op \in ViewOps : SeqViewStart(t, op)
    \/ \E t \in ThreadIds : GetCached(t)
    \/ \E t \in ThreadIds : GetLoadOrCreate(t)
    \/ \E t \in ThreadIds : TrainBody(t)
    \/ \E t \in ThreadIds, plot_exists \in BOOLEAN : DetectBody(t, plot_exists)
    \/ \E t \in ThreadIds : BatchBody(t)
    \/ \E t \in ThreadIds : StatusBody(t)
    \/ Restart

SpecViews == ViewsInit /\ [][ViewsNext]_vars

\* requests served by concurrent threads, one train request at a time
RaceNext ==
    \/ \E t \in ThreadIds, op \in ViewOps : SerialTrainStart(t, op)
    \/ \E t \in ThreadIds : GetCached(t)
    \/ \E t \in ThreadIds : GetLoadOrCreate(t)
    \/ \E t \in ThreadIds : TrainBody(t)
    \/ \E t \in ThreadIds, plot_exists \in BOOLEAN : DetectBody(t, plot_exists)
    \/ \E t \in ThreadIds : BatchBody(t)
    \/ \E t \in ThreadIds : StatusBody(t)
    \/ Restart

SpecRace == ViewsInit /\ [][RaceNext]_vars

\* C26: get_or_create_detector hands every caller of the process the same
\* detector from its first use until the restart, so once a train request has
\* persisted a model, every scoring and status response comes from a trained
\* detector.
C26_OneDetector ==
    /\ Cardinality(handed) <= 1
    /\ (/\ viewResp.call \in {"detect", "batch", "status"}
        /\ files[ViewPath] # NoFile) => viewResp.trained

\* C29: whenever the status endpoint reports trained=true it reports the
\* model as saved to disk, and the file holds the model of the cached detector:
\* same sample count, same training date, and loading it gives that detector.
C29_TrainedIsPersisted ==
    (/\ viewResp.call = "status"
     /\ viewResp.trained) =>
        /\ viewResp.saved_to_disk
        /\ files[ViewPath] # NoFile
        /\ files[ViewPath].training_data_size = viewResp.training_data_size
        /\ files[ViewPath].training_date = viewResp.training_date
        /\ cacheRef # 0
        /\ LoadModel(files[ViewPath]) = Ok(detectors[cacheRef])

\* status after the model was trained a second time
C29_Witness ==
    /\ viewResp.call = "status"
    /\ viewResp.trained
    /\ viewResp.saved_to_disk
    /\ viewResp.training_date = 1
    /\ viewResp.training_data_size = MinTrainingSamples

\* C30: a train request over recent readings with 10 or more readings windows
\* them (size 10, stride 1), trains on the windows, persists the model and
\* answers 200.
C30_TrainSucceeds ==
    (/\ viewResp.call = "train"
     /\ viewResp.n_values >= TrainMinValues) =>
        /\ viewResp.status = 200
        /\ viewResp.n_windows = viewResp.n_values - WindowSize + 1
        /\ viewResp.trained
        /\ viewResp.training_data_size = viewResp.n_windows
        /\ viewResp.saved_to_disk

====
